---- MODULE Spec2Model ----
(***************************************************************************)
(* Model of pyqgiswps/executors/processingio.py: the adapter between QGIS  *)
(* processing parameter/output definitions and WPS inputs/outputs.         *)
(*                                                                         *)
(* Python strings are modelled as sequences of one-character strings, so   *)
(* that urlparse, parse_qs, normpath and basename are computed character   *)
(* by character as the library computes them.                              *)
(***************************************************************************)
EXTENDS Integers, Sequences, FiniteSets, TLC

VARIABLES
    selected,                    \* the selected feature ids of the live vector layer
    supportsNonFileBasedOutput,  \* destination parameter name -> flag of the descriptor
    log,                         \* records logged by the last call or step, in order
    call,                        \* the last call: operation, arguments, result
    exec                         \* execution -> position of a concurrent decode/run

vars == <<selected, supportsNonFileBasedOutput, log, call, exec>>

(***************************************************************************)
(* Bounds                                                                  *)
(***************************************************************************)
NFeatures == 2      \* features of the live vector layer
MaxInp == 2         \* submitted values per input
MaxPathLen == 3     \* characters of a submitted destination path
MaxOptions == 2     \* options of an enum parameter
MaxMinInputs == 2   \* minimumNumberInputs of a multi-layer parameter

(***************************************************************************)
(* Python string helpers                                                   *)
(***************************************************************************)
None == [t |-> "None"]

Str(s) == [t |-> "str", s |-> s]

\* str.find(c): the first 1-based position of character c in s, 0 when absent
Find(s, c) ==
    IF \E i \in 1..Len(s) : s[i] = c
    THEN CHOOSE i \in 1..Len(s) : s[i] = c /\ \A j \in 1..(i-1) : s[j] # c
    ELSE 0

\* str.rfind(c): the last 1-based position of character c in s, 0 when absent
RFind(s, c) ==
    IF \E i \in 1..Len(s) : s[i] = c
    THEN CHOOSE i \in 1..Len(s) : s[i] = c /\ \A j \in (i+1)..Len(s) : s[j] # c
    ELSE 0

\* s[i:] with a 1-based start
From(s, i) == SubSeq(s, i, Len(s))

StartsWith(s, p) == Len(s) >= Len(p) /\ SubSeq(s, 1, Len(p)) = p

RECURSIVE Split(_, _)
\* str.split(c): the pieces of s between occurrences of c
Split(s, c) ==
    LET i == Find(s, c)
    IN  IF i = 0 THEN <<s>>
        ELSE <<SubSeq(s, 1, i-1)>> \o Split(From(s, i+1), c)

RECURSIVE Join(_, _)
\* c.join(parts)
Join(parts, c) ==
    IF Len(parts) = 0 THEN <<>>
    ELSE IF Len(parts) = 1 THEN parts[1]
    ELSE parts[1] \o <<c>> \o Join(Tail(parts), c)

UpperToLower ==
    [c \in {"L", "F", "T", "X"} |->
        CASE c = "L" -> "l" [] c = "F" -> "f" [] c = "T" -> "t" [] c = "X" -> "x"]

\* str.lower()
Lower(s) ==
    [i \in 1..Len(s) |->
        IF s[i] \in DOMAIN UpperToLower THEN UpperToLower[s[i]] ELSE s[i]]

Letters == {"a", "b", "e", "f", "h", "i", "l", "p", "r", "t", "y", "x",
            "c", "s", "L", "F"}

\* urllib.parse.scheme_chars
scheme_chars ==
    Letters \cup {"0", "1", "2", "3", "4", "5", "6", "7", "8", "9"} \cup {"+", "-", "."}

\* urllib.parse.uses_params, restricted to the schemes of the model
uses_params == { <<>>, <<"f","t","p">> }

(***************************************************************************)
(* urllib.parse                                                            *)
(***************************************************************************)
\* _splitnetloc(url, 2): the netloc ends at the first of '/', '?', '#'
SplitNetloc(url) ==
    LET rest == From(url, 3)
        cut  == { i \in 1..Len(rest) : rest[i] \in {"/", "?", "#"} }
        d    == IF cut = {} THEN Len(rest) + 1
                ELSE CHOOSE i \in cut : \A j \in cut : i <= j
    IN  [netloc |-> SubSeq(rest, 1, d-1), url |-> From(rest, d)]

\* s cut at 1-based position i of a separator: what precedes it and what
\* follows it; the whole of s and nothing when i = 0
CutAt(s, i) ==
    IF i > 0 THEN [head |-> SubSeq(s, 1, i-1), tail |-> From(s, i+1)]
    ELSE [head |-> s, tail |-> <<>>]

\* urlsplit: url[:i] is a scheme when it starts with a letter and holds only
\* scheme characters
HasScheme(url, i) ==
    /\ i > 1
    /\ url[1] \in Letters
    /\ \A k \in 1..(i-1) : url[k] \in scheme_chars

\* urlsplit: the scheme, lowered, and what follows its ':'
SplitScheme(url, i) ==
    IF HasScheme(url, i)
    THEN [scheme |-> Lower(SubSeq(url, 1, i-1)), url |-> From(url, i+1)]
    ELSE [scheme |-> <<>>, url |-> url]

\* urlsplit: the netloc of a url that starts with '//'
SplitAuthority(url) ==
    IF StartsWith(url, <<"/", "/">>) THEN SplitNetloc(url)
    ELSE [netloc |-> <<>>, url |-> url]

\* urlsplit: the query cut off what precedes the fragment
SplitResult(scheme, netloc, pq, fragment) ==
    [scheme |-> scheme, netloc |-> netloc, path |-> pq.head, query |-> pq.tail,
     fragment |-> fragment]

\* urlsplit: the fragment cut off, then the query
SplitFragment(scheme, netloc, f) ==
    SplitResult(scheme, netloc, CutAt(f.head, Find(f.head, "?")), f.tail)

\* urlsplit: the netloc cut off, then the fragment
SplitRest(scheme, nl) ==
    SplitFragment(scheme, nl.netloc, CutAt(nl.url, Find(nl.url, "#")))

\* urlsplit(url): scheme, netloc, path, query, fragment; the scheme is cut
\* off, then the netloc
UrlSplit(url) ==
    SplitRest(SplitScheme(url, Find(url, ":")).scheme,
              SplitAuthority(SplitScheme(url, Find(url, ":")).url))

\* _splitparams(url): cut at the first ';' after the last '/'
SplitParams(url) ==
    LET s == RFind(url, "/")
        k == Find(From(url, s+1), ";")
    IN  IF k = 0 THEN url ELSE SubSeq(url, 1, s + k - 1)

\* urlparse: the params cut off the path of the schemes that use them
CutParams(r) ==
    IF r.scheme \in uses_params /\ Find(r.path, ";") > 0
    THEN [r EXCEPT !.path = SplitParams(r.path)]
    ELSE r

\* urlparse(url): urlsplit, then the params cut off the path
urlparse(url) == CutParams(UrlSplit(url))

\* one 'name=value' field of a query string
QsPair(field) ==
    LET e == Find(field, "=")
    IN  IF e = 0 THEN [name |-> field, value |-> <<>>]
        ELSE [name |-> SubSeq(field, 1, e-1), value |-> From(field, e+1)]

\* parse_qsl(query): the fields in order, blank values dropped
ParseQsl(query) ==
    LET fields == Split(query, "&")
        pairs  == [i \in 1..Len(fields) |-> QsPair(fields[i])]
    IN  SelectSeq(pairs, LAMBDA p : Len(p.value) > 0)

\* parse_qs(query).get(name, []): the values given for name, in order
QsGet(query, name) ==
    LET hits == SelectSeq(ParseQsl(query), LAMBDA p : p.name = name)
    IN  [i \in 1..Len(hits) |-> hits[i].value]

(***************************************************************************)
(* Submitted layer specs: a scheme prefix, a path and a query string       *)
(***************************************************************************)
SchemePrefixes ==
    { <<>>,
      <<"l", "a", "y", "e", "r", ":">>,
      <<"L", "a", "y", "e", "r", ":">>,
      <<"f", "i", "l", "e", ":">>,
      <<"f", "t", "p", ":">> }

PathParts ==
    { <<"a">>, <<"b">>, <<"r">>, <<"t", "/", "a">>, <<"/", "/", "h", "/", "a">> }

QueryParts ==
    { <<>>,
      <<"?", "r", "e", "c", "t", "=", "1">>,
      <<"?", "r", "e", "c", "t", "=", "1", ",", "2">>,
      <<"?", "r", "e", "c", "t", "=", "3", ",", "3", ",", "3", ",", "3", ",", "1">>,
      <<"?", "s", "e", "l", "e", "c", "t", "=", "2">>,
      <<"?", "s", "e", "l", "e", "c", "t", "=", "1", "2">>,
      <<"?", "r", "e", "c", "t", "=", "1", "&", "s", "e", "l", "e", "c", "t", "=", "1", "2">>,
      <<"?", "r", "e", "c", "t", "=", "1", ",", "2", "&", "s", "e", "l", "e", "c", "t", "=", "2">>,
      <<"?", "r", "e", "c", "t", "=", "1", "&", "r", "e", "c", "t", "=", "2">>,
      <<"?", "s", "e", "l", "e", "c", "t", "=", "1", "&", "r", "e", "c", "t", "=", "2",
        "&", "s", "e", "l", "e", "c", "t", "=", "2">>,
      <<"?", "r", "e", "c", "t", "=">>,
      <<"#", "?", "r", "e", "c", "t", "=", "1">> }

\* every scheme and path without a query and with one query, and every query
\* on the paths of a live vector layer, a live raster layer and of no layer
LayerSpecs ==
    { s \o p \o q : s \in SchemePrefixes, p \in PathParts,
                    q \in {<<>>, <<"?", "r", "e", "c", "t", "=", "1", "&",
                                  "s", "e", "l", "e", "c", "t", "=", "1", "2">>} }
        \cup { s \o p \o q : s \in {<<>>, <<"l", "a", "y", "e", "r", ":">>},
                              p \in {<<"a">>, <<"b">>, <<"r">>}, q \in QueryParts }

\* layer specs submitted for a feature source: a live vector layer, a live
\* raster layer or no layer, with every query
SelectionSpecs ==
    { s \o p \o q : s \in {<<>>, <<"l", "a", "y", "e", "r", ":">>},
                    p \in {<<"a">>, <<"b">>, <<"r">>}, q \in QueryParts }

\* layer specs submitted in lists for the other layer parameters
ListSpecs ==
    { <<"l", "a", "y", "e", "r", ":", "a">>,
      <<"l", "a", "y", "e", "r", ":", "b">>,
      <<"a", "?", "r", "e", "c", "t", "=", "1", "&", "s", "e", "l", "e", "c", "t", "=", "2">>,
      <<"f", "t", "p", ":", "a">> }

S_file  == <<"f", "i", "l", "e">>
S_layer == <<"l", "a", "y", "e", "r">>

\* every layer spec a call is given
AllLayerSpecs == LayerSpecs \cup SelectionSpecs \cup ListSpecs

\* urlparse and parse_qs are pure: their results on the submitted specs
UrlTable == [s \in AllLayerSpecs |-> urlparse(s)]

QsTable ==
    [q \in { UrlTable[s].query : s \in AllLayerSpecs } |->
        [select |-> QsGet(q, <<"s", "e", "l", "e", "c", "t">>),
         rect |-> QsGet(q, <<"r", "e", "c", "t">>)]]

(***************************************************************************)
(* The execution context and the live layers                               *)
(***************************************************************************)
Features == 1..NFeatures

DigitChars == <<"1", "2", "3", "4", "5", "6", "7", "8", "9">>

\* QgsMapLayer.type() of the layers the processing context holds
LiveLayers == [n \in {<<"a">>, <<"r">>} |->
                 IF n = <<"a">> THEN "VectorLayer" ELSE "RasterLayer"]

\* context.getMapLayer(path): the live layer of that name, or None
getMapLayer(p) == IF p \in DOMAIN LiveLayers THEN Str(p) ELSE None

\* context.resolve_path(path): the path made absolute under the root directory
resolve_path(p) ==
    <<"/", "w">> \o (IF StartsWith(p, <<"/">>) THEN p ELSE <<"/">> \o p)

\* QgsRectangle(value.split(',')[:4]) and the features of the layer inside it
FeaturesInRect(value) ==
    LET parts == Split(value, ",")
        four  == SubSeq(parts, 1, IF Len(parts) < 4 THEN Len(parts) ELSE 4)
    IN  { f \in Features : \E i \in 1..Len(four) : four[i] = <<DigitChars[f]>> }

\* the features of the layer for which the filter expression evaluates to true
FeaturesMatching(expr) ==
    { f \in Features : \E i \in 1..Len(expr) : expr[i] = DigitChars[f] }

\* QgsVectorLayer.selectByRect(rect, behavior): the new selection
selectByRect(sel, rect, behavior) ==
    IF behavior = "SetSelection" THEN FeaturesInRect(rect)
    ELSE sel \cap FeaturesInRect(rect)

\* the selection were the expression added to the rectangle selection
selectByExpressionUnion(sel, expr, behavior) ==
    IF behavior = "SetSelection" THEN FeaturesMatching(expr)
    ELSE sel \cup FeaturesMatching(expr)

\* QgsVectorLayer.selectByExpression(expr, behavior): the new selection
selectByExpression(sel, expr, behavior) ==
    IF behavior = "SetSelection" THEN FeaturesMatching(expr)
    ELSE sel \cap FeaturesMatching(expr)

(***************************************************************************)
(* parse_layer_spec                                                        *)
(***************************************************************************)
Last(s) == s[Len(s)]

\* the behavior passed to selectByExpression (lines 488, 495)
ExpressionBehavior(feat_rects) ==
    IF Len(feat_rects) > 0 THEN "IntersectSelection" ELSE "SetSelection"

\* the selection steps were their exceptions swallowed
ApplySelectionSwallowed(sel, feat_rects, feat_requests, raises) ==
    [failed |-> FALSE, sel |-> sel]

\* lines 489-502: the selection steps on a vector layer; raises names the step
\* (if any) in which QGIS throws
ApplySelection(sel, feat_rects, feat_requests, raises) ==
    LET rectFails == Len(feat_rects) > 0 /\ raises = "rect"
        sel1 == IF Len(feat_rects) > 0 /\ ~rectFails
                THEN selectByRect(sel, Last(feat_rects), "SetSelection")
                ELSE sel
        exprFails == ~rectFails /\ Len(feat_requests) > 0 /\ raises = "select"
        sel2 == IF Len(feat_requests) > 0 /\ ~rectFails /\ ~exprFails
                THEN selectByExpression(sel1, Last(feat_requests),
                                        ExpressionBehavior(feat_rects))
                ELSE sel1
    IN  [failed |-> rectFails \/ exprFails, sel |-> sel2]

\* the path were the file scheme left unresolved
SchemePathNoResolve(u) == u.path

\* the path a scheme gives (lines 465-467)
SchemePath(u) == IF u.scheme = S_file THEN resolve_path(u.path) ELSE u.path

\* the scheme is neither empty, 'file' nor 'layer' (lines 466-468)
BadScheme(u) == u.scheme # S_file /\ Len(u.scheme) > 0 /\ u.scheme # S_layer

\* what a call of parse_layer_spec leaves: the exception or the returned
\* tuple, the selection of the layer and what is logged
LayerSpecResult(outcome, path, has, sel, lg) ==
    [outcome |-> outcome, path |-> path, has_selection |-> has,
     sel |-> sel, log |-> lg]

\* lines 478-503: the query asks for a selection on the layer at path p
SelectOnLayer(p, feat_rects, feat_requests, sel, r) ==
    IF getMapLayer(p) = None
    THEN LayerSpecResult("InvalidParameterValue", None, FALSE, sel,
                         << <<"error", "No layer path for url">> >>)
    ELSE IF LiveLayers[p] # "VectorLayer"
    THEN LayerSpecResult("ok", Str(p), TRUE, sel,
                         << <<"warning", "Can apply selection only to vector layer">> >>)
    ELSE IF r.failed
    THEN LayerSpecResult("NoApplicableCode", None, FALSE, r.sel,
                         << <<"error", "traceback">> >>)
    ELSE LayerSpecResult("ok", Str(p), TRUE, r.sel, <<>>)

\* lines 471-503: the scheme is accepted and gives path p, the query gives qs
ParseSelection(p, qs, allow_selection, sel, raises) ==
    IF ~allow_selection
    THEN LayerSpecResult("ok", Str(p), FALSE, sel, <<>>)
    ELSE IF Len(qs.rect) = 0 /\ Len(qs.select) = 0
    THEN LayerSpecResult("ok", Str(p), FALSE, sel, <<>>)
    ELSE SelectOnLayer(p, qs.rect, qs.select, sel,
                       ApplySelection(sel, qs.rect, qs.select, raises))

\* lines 465-503 on the parsed url u
ParseUrl(u, allow_selection, sel, raises) ==
    IF BadScheme(u)
    THEN LayerSpecResult("InvalidParameterValue", None, FALSE, sel, <<>>)
    ELSE ParseSelection(SchemePath(u), QsTable[u.query], allow_selection, sel, raises)

\* parse_layer_spec(layerspec, context, allow_selection) on a context whose
\* vector layer has selection sel: the outcome, the returned tuple, the new
\* selection and what is logged
parse_layer_spec(layerspec, allow_selection, sel, raises) ==
    ParseUrl(UrlTable[layerspec], allow_selection, sel, raises)

(***************************************************************************)
(* Native parameter descriptors                                            *)
(***************************************************************************)
PyInt(i) == [t |-> "int", i |-> i]

PyList(l) == [t |-> "list", l |-> l]

\* QgsProcessingParameterDefinition.type() of each parameter class
ParameterType ==
    [c \in {"String", "Boolean", "Enum", "Number", "Distance", "Field", "Crs",
            "Band", "VectorLayer", "FeatureSource", "RasterLayer", "MapLayer",
            "MultipleLayers", "FeatureSink", "VectorDestination",
            "RasterDestination", "File", "FileDestination", "FolderDestination",
            "Extent", "Point", "Matrix", "Range", "Expression"} |->
        CASE c = "String" -> "string"
          [] c = "Boolean" -> "boolean"
          [] c = "Enum" -> "enum"
          [] c = "Number" -> "number"
          [] c = "Distance" -> "distance"
          [] c = "Field" -> "field"
          [] c = "Crs" -> "crs"
          [] c = "Band" -> "band"
          [] c = "VectorLayer" -> "vector"
          [] c = "FeatureSource" -> "source"
          [] c = "RasterLayer" -> "raster"
          [] c = "MapLayer" -> "layer"
          [] c = "MultipleLayers" -> "multilayer"
          [] c = "FeatureSink" -> "sink"
          [] c = "VectorDestination" -> "vectorDestination"
          [] c = "RasterDestination" -> "rasterDestination"
          [] c = "File" -> "file"
          [] c = "FileDestination" -> "fileDestination"
          [] c = "FolderDestination" -> "folderDestination"
          [] c = "Extent" -> "extent"
          [] c = "Point" -> "point"
          [] c = "Matrix" -> "matrix"
          [] c = "Range" -> "range"
          [] c = "Expression" -> "expression"]

\* the classes a class derives from (QgsProcessingParameterDistance is a
\* QgsProcessingParameterNumber)
BaseClasses(c) == IF c = "Distance" THEN {"Distance", "Number"} ELSE {c}

\* isinstance(param, classes)
IsInstance(param, classes) == BaseClasses(param.cls) \cap classes # {}

DESTINATION_LAYER_TYPES == {"FeatureSink", "VectorDestination", "RasterDestination"}

INPUT_VECTOR_LAYER_TYPES == {"VectorLayer", "FeatureSource"}

INPUT_RASTER_LAYER_TYPES == {"RasterLayer"}

INPUT_OTHER_LAYER_TYPES == {"MapLayer", "MultipleLayers"}

INPUT_LAYER_TYPES ==
    INPUT_VECTOR_LAYER_TYPES \cup INPUT_RASTER_LAYER_TYPES \cup INPUT_OTHER_LAYER_TYPES

\* the classes that derive from QgsProcessingParameterLimitedDataTypes
LimitedDataTypesClasses == {"VectorLayer", "FeatureSource", "MapLayer"}

\* the keys of SourceTypes (lines 115-124)
SourceTypes ==
    {"TypeMapLayer", "TypeVectorAnyGeometry", "TypeVectorPoint", "TypeVectorLine",
     "TypeVectorPolygon", "TypeRaster", "TypeFile", "TypeVector"}

\* _is_optional(param)
is_optional(param) == param.optional

\* a descriptor of class c with the fields no kind-specific accessor reads at
\* their neutral values
Descriptor(c, optional) ==
    [cls |-> c, typ |-> ParameterType[c], name |-> <<"p">>, optional |-> optional,
     defaultValue |-> None, options |-> <<>>, allowMultiple |-> FALSE,
     dataType |-> "Double", minimumNumberInputs |-> 0, dataTypes |-> <<>>,
     layerType |-> "TypeVectorAnyGeometry", behavior |-> "File",
     defaultFileExtension |-> <<"s", "h", "p">>, extension |-> <<>>,
     minimum |-> 0, maximum |-> 10, fieldDataType |-> "Any",
     parentLayerParameterName |-> <<"i", "n">>, description |-> <<"d">>,
     metadata |-> <<>>]

OptionChars == {<<"x">>, <<"y">>}

\* default values of an enum parameter: null, an index, a string, a list of
\* indices, a list of an option string, a list of a string and an index
EnumDefaults ==
    {None, Str(<<"x">>), PyList(<<>>), PyList(<<PyInt(0), PyInt(1)>>),
     PyList(<<Str(<<"x">>)>>), PyList(<<Str(<<"x">>), PyInt(0)>>)}
        \cup { PyInt(i) : i \in (-1)..MaxOptions }
        \cup { PyList(<<PyInt(i)>>) : i \in 0..MaxOptions }

EnumParams ==
    { [Descriptor("Enum", o) EXCEPT !.options = opts, !.allowMultiple = m,
                                    !.defaultValue = d] :
        o \in BOOLEAN, m \in BOOLEAN, d \in EnumDefaults,
        \* the option lists, the same option possibly repeated
        opts \in UNION { [1..n -> OptionChars] : n \in 0..MaxOptions } }

NumberParams ==
    { [Descriptor(c, o) EXCEPT !.dataType = dt] :
        c \in {"Number", "Distance"}, o \in BOOLEAN, dt \in {"Double", "Integer"} }

FileParams ==
    { [Descriptor("File", o) EXCEPT !.behavior = b, !.extension = e] :
        o \in BOOLEAN, b \in {"File", "Folder"},
        e \in {<<>>, <<".", "t", "x", "t">>, <<".", "z", "z">>} }

DeclaredDataTypes ==
    { <<>>, <<"TypeVectorPoint">>, <<"TypeVectorLine", "TypeVectorPolygon">>,
      <<"TypeRaster">> }

LayerParams ==
    { [Descriptor(c, o) EXCEPT !.dataTypes = dts] :
        c \in LimitedDataTypesClasses, o \in BOOLEAN, dts \in DeclaredDataTypes }
        \cup { Descriptor("RasterLayer", o) : o \in BOOLEAN }

MultipleLayersParams ==
    { [Descriptor("MultipleLayers", o) EXCEPT !.minimumNumberInputs = n,
                                              !.layerType = lt] :
        o \in BOOLEAN, n \in 0..MaxMinInputs,
        lt \in {"TypeMapLayer", "TypeVectorAnyGeometry", "TypeVectorPoint",
                "TypeRaster", "TypeFile"} }

DestinationParams ==
    { [Descriptor(c, o) EXCEPT !.name = n, !.defaultFileExtension = e,
                               !.dataType = "TypeVectorAnyGeometry"] :
        c \in DESTINATION_LAYER_TYPES, o \in BOOLEAN, n \in {<<"p">>, <<"o", "u", "t">>},
        e \in {<<"s", "h", "p">>, <<"t", "i", "f">>} }

PlainParams ==
    { Descriptor(c, o) :
        c \in {"String", "Boolean", "Field", "Crs", "Band", "FileDestination",
               "FolderDestination", "Extent", "Point", "Matrix", "Range",
               "Expression"},
        o \in BOOLEAN }

\* descriptors carrying freeform metadata, as <<key, value>> pairs in the
\* order of the dict
AnnotatedParams ==
    { [Descriptor("FileDestination", o) EXCEPT !.metadata = m] :
        o \in BOOLEAN,
        m \in { << <<"wps:as_reference", TRUE>> >>, << <<"wps:as_reference", FALSE>> >> } }

Params ==
    PlainParams \cup EnumParams \cup NumberParams \cup FileParams \cup LayerParams
        \cup MultipleLayersParams \cup DestinationParams \cup AnnotatedParams

(***************************************************************************)
(* Map contexts: the layers of the project at description time             *)
(***************************************************************************)
ProjectLayers ==
    << [name |-> <<"a">>, type |-> "VectorLayer", geometryType |-> "PointGeometry"],
       [name |-> <<"g">>, type |-> "VectorLayer", geometryType |-> "PolygonGeometry"],
       [name |-> <<"r">>, type |-> "RasterLayer", geometryType |-> "NullGeometry"] >>

\* a map context is None or a project, given by its layers in registry order
MapContexts ==
    {None} \cup { [t |-> "MapContext", layers |-> l] :
                    l \in { <<>>, <<ProjectLayers[3]>>, SubSeq(ProjectLayers, 1, 2),
                            ProjectLayers } }

(***************************************************************************)
(* Inputs converters                                                       *)
(***************************************************************************)
Unset == <<>>

Set(v) == <<v>>

\* min_occurs and max_occurs of an input built without them (pyqgiswps.inout)
DefaultMinOccurs == 1

DefaultMaxOccurs == 1

\* max_occurs of a multi-layer input before the project is known (line 230)
MultilayerMaxOccurs == 20

\* mimetypes.types_map.get(ext), None when the extension is unknown
MimeType(ext) ==
    CASE ext = <<".", "t", "x", "t">> -> "text/plain"
      [] ext = <<".", "h", "t", "m", "l">> -> "text/html"
      [] ext = <<".", "t", "i", "f">> -> "image/tiff"
      [] OTHER -> "None"

\* LiteralInput(**kwargs), ComplexInput(**kwargs), BoundingBoxInput(**kwargs)
MakeInput(shape, kwargs) ==
    [shape |-> shape,
     identifier |-> kwargs.identifier,
     title |-> kwargs.title,
     abstract |-> kwargs.abstract,
     min_occurs |-> IF kwargs.min_occurs = Unset THEN DefaultMinOccurs
                    ELSE kwargs.min_occurs[1],
     max_occurs |-> IF kwargs.max_occurs = Unset THEN DefaultMaxOccurs
                    ELSE kwargs.max_occurs[1],
     data_type |-> kwargs.data_type,
     default |-> kwargs.default,
     allowed_values |-> kwargs.allowed_values,
     supported_formats |-> kwargs.supported_formats,
     crss |-> kwargs.crss,
     metadata |-> kwargs.metadata]

Matched(shape, kwargs) ==
    [outcome |-> "ok", inp |-> MakeInput(shape, kwargs), kwargs |-> kwargs]

NotMatched(kwargs) == [outcome |-> "none", inp |-> None, kwargs |-> kwargs]

Raised(exception, kwargs) == [outcome |-> exception, inp |-> None, kwargs |-> kwargs]

\* seq[i] with Python's indexing: 0-based, negative indices count from the end
PyIndexInRange(seq, i) == -Len(seq) <= i /\ i < Len(seq)

PyIndex(seq, i) == IF i >= 0 THEN seq[i + 1] ELSE seq[Len(seq) + i + 1]

\* lines 152-165: the enum branch of parse_literal_input
EnumLiteral(param, kwargs) ==
    LET options == param.options
        kw == [kwargs EXCEPT !.data_type = Set("string"),
                             !.allowed_values = Set(options),
                             !.max_occurs = Set(IF param.allowMultiple
                                                THEN Len(options) ELSE 1)]
        d  == param.defaultValue
    IN  IF d = None THEN Matched("Literal", kw)
        ELSE IF d.t = "int"
        THEN IF PyIndexInRange(options, d.i)
             THEN Matched("Literal", [kw EXCEPT !.default = Str(PyIndex(options, d.i))])
             ELSE Raised("IndexError", kw)
        ELSE IF d.t = "list"
        THEN IF Len(d.l) = 0 THEN Raised("IndexError", kw)
             ELSE IF d.l[1].t # "int" THEN Raised("TypeError", kw)
             ELSE IF PyIndexInRange(options, d.l[1].i)
             THEN Matched("Literal",
                          [kw EXCEPT !.default = Str(PyIndex(options, d.l[1].i))])
             ELSE Raised("IndexError", kw)
        ELSE Raised("InvalidParameterValue", kw)

\* parse_literal_input(param, kwargs)
parse_literal_input(param, kwargs) ==
    LET typ == param.typ
    IN  CASE typ = "string" ->
                Matched("Literal", [kwargs EXCEPT !.data_type = Set("string")])
          [] typ = "boolean" ->
                Matched("Literal", [kwargs EXCEPT !.data_type = Set("boolean")])
          [] typ = "enum" -> EnumLiteral(param, kwargs)
          [] typ = "number" ->
                Matched("Literal",
                    [kwargs EXCEPT
                        !.data_type = Set(IF param.dataType = "Double"
                                          THEN "float" ELSE "integer"),
                        !.allowed_values = Set(<< <<param.minimum, param.maximum>> >>)])
          [] typ = "field" ->
                Matched("Literal",
                    [kwargs EXCEPT
                        !.data_type = Set("string"),
                        !.metadata = @ \o
                            << <<"processing:parentLayerParameterName",
                                 param.parentLayerParameterName>>,
                               <<"processing:dataType", param.fieldDataType>> >>])
          [] typ = "crs" ->
                Matched("Literal", [kwargs EXCEPT !.data_type = Set("string")])
          [] typ = "band" ->
                Matched("Literal", [kwargs EXCEPT !.data_type = Set("nonNegativeInteger")])
          [] OTHER -> NotMatched(kwargs)

\* parse_file_input(param, kwargs)
parse_file_input(param, kwargs) ==
    LET typ == param.typ
    IN  CASE typ = "file" ->
                IF param.behavior = "Folder"
                THEN Matched("Literal", [kwargs EXCEPT !.data_type = Set("string")])
                ELSE IF Len(param.extension) > 0
                THEN Matched("Complex",
                        [kwargs EXCEPT
                            !.supported_formats =
                                IF MimeType(param.extension) # "None"
                                THEN Set(<<MimeType(param.extension)>>) ELSE @,
                            !.metadata = @ \o
                                << <<"processing:extension", param.extension>> >>])
                ELSE Matched("Complex", kwargs)
          [] typ = "fileDestination" ->
                Matched("Literal",
                    [kwargs EXCEPT
                        !.data_type = Set("string"),
                        !.metadata = @ \o
                            << <<"processing:format",
                                 LET m == MimeType(<<".">> \o param.defaultFileExtension)
                                 IN  IF m = "None" THEN "" ELSE m>> >>])
          [] typ = "folderDestination" ->
                Matched("Literal", [kwargs EXCEPT !.data_type = Set("string")])
          [] OTHER -> NotMatched(kwargs)

\* lines 232-244: the data types a layer parameter accepts
AcceptedDataTypes(param) ==
    LET declared == IF IsInstance(param, LimitedDataTypesClasses)
                    THEN param.dataTypes ELSE <<>>
    IN  IF Len(declared) > 0 THEN declared
        ELSE IF IsInstance(param, INPUT_VECTOR_LAYER_TYPES) THEN <<"TypeVector">>
        ELSE IF IsInstance(param, INPUT_RASTER_LAYER_TYPES) THEN <<"TypeRaster">>
        ELSE IF IsInstance(param, {"MultipleLayers"}) THEN <<param.layerType>>
        ELSE <<"TypeMapLayer">>

\* _is_allowed(lyr) (lines 253-265)
is_allowed(lyr, datatypes) ==
    LET has(dt) == \E i \in 1..Len(datatypes) : datatypes[i] = dt
    IN  IF lyr.type = "VectorLayer"
        THEN \/ (lyr.geometryType = "PointGeometry" /\ has("TypeVectorPoint"))
             \/ (lyr.geometryType = "LineGeometry" /\ has("TypeVectorLine"))
             \/ (lyr.geometryType = "PolygonGeometry" /\ has("TypeVectorPolygon"))
             \/ has("TypeVectorAnyGeometry")
             \/ has("TypeVector")
             \/ has("TypeMapLayer")
        ELSE IF lyr.type = "RasterLayer"
        THEN has("TypeRaster") \/ has("TypeMapLayer")
        ELSE FALSE

\* lines 227-230: the cardinality of a multi-layer input
MultilayerMinOccurs(param, kwargs) ==
    Set(IF param.minimumNumberInputs >= 1 THEN param.minimumNumberInputs ELSE 0)

\* parse_allowed_layers(param, kwargs, context): the kwargs it leaves
parse_allowed_layers(param, kwargs, context) ==
    LET typ == param.typ
        kw1 == IF typ = "multilayer"
               THEN [kwargs EXCEPT !.min_occurs = MultilayerMinOccurs(param, kwargs),
                                   !.max_occurs = Set(MultilayerMaxOccurs)]
               ELSE kwargs
        datatypes == AcceptedDataTypes(param)
        kw2 == [kw1 EXCEPT !.metadata = @ \o << <<"processing:dataTypes", datatypes>> >>]
        admitted == SelectSeq(context.layers, LAMBDA lyr : is_allowed(lyr, datatypes))
        names == [i \in 1..Len(admitted) |-> admitted[i].name]
        kw3 == [kw2 EXCEPT !.allowed_values = Set(names)]
    IN  IF context = None THEN kw2
        ELSE IF typ = "multilayer"
        THEN [kw3 EXCEPT !.max_occurs = Set(Len(names))]
        ELSE kw3

\* parse_layer_input(param, kwargs, context)
parse_layer_input(param, kwargs, context) ==
    IF IsInstance(param, INPUT_LAYER_TYPES)
    THEN Matched("Literal",
            parse_allowed_layers(param, [kwargs EXCEPT !.data_type = Set("string")],
                                 context))
    ELSE IF IsInstance(param, {"RasterDestination"})
    THEN Matched("Literal",
            [kwargs EXCEPT
                !.data_type = Set("string"),
                !.metadata = @ \o
                    << <<"processing:extension", param.defaultFileExtension>> >>])
    ELSE IF IsInstance(param, {"VectorDestination", "FeatureSink"})
    THEN Matched("Literal",
            [kwargs EXCEPT
                !.data_type = Set("string"),
                !.metadata = @ \o
                    << <<"processing:dataType", param.dataType>>,
                       <<"processing:extension", param.defaultFileExtension>> >>])
    ELSE NotMatched(kwargs)

\* the extent matcher were it to take points as well
parse_extent_input_or_point(param, kwargs) ==
    IF param.typ \in {"extent", "point"}
    THEN Matched("BoundingBox", [kwargs EXCEPT !.crss = Set(<<"EPSG:4326">>)])
    ELSE NotMatched(kwargs)

\* parse_extent_input(param, kwargs)
parse_extent_input(param, kwargs) ==
    IF param.typ = "extent"
    THEN Matched("BoundingBox", [kwargs EXCEPT !.crss = Set(<<"EPSG:4326">>)])
    ELSE NotMatched(kwargs)

\* parse_point_input(param, kwargs)
parse_point_input(param, kwargs) ==
    IF IsInstance(param, {"Point"})
    THEN Matched("Complex", [kwargs EXCEPT !.supported_formats = Set(<<"GEOJSON", "GML">>)])
    ELSE NotMatched(kwargs)

\* str.replace(a, b) for single characters
Replace(s, a, b) == [i \in 1..Len(s) |-> IF s[i] = a THEN b ELSE s[i]]

\* lines 323-345: the kwargs shared by every matcher
InitialKwargs(param) ==
    [identifier |-> param.name,
     title |-> Replace(param.name, "_", " "),
     abstract |-> param.description,
     metadata |-> << <<"processing:type", param.typ>> >>,
     default |-> param.defaultValue,
     min_occurs |-> IF is_optional(param) THEN Set(0) ELSE Unset,
     max_occurs |-> Unset,
     data_type |-> Unset,
     allowed_values |-> Unset,
     supported_formats |-> Unset,
     crss |-> Unset]

\* the chain of matchers, the first that recognises the parameter winning
\* (lines 347-351)
FirstMatch(param, context) ==
    LET k0 == InitialKwargs(param)
        r1 == parse_literal_input(param, k0)
        r2 == parse_layer_input(param, r1.kwargs, context)
        r3 == parse_extent_input(param, r2.kwargs)
        r4 == parse_file_input(param, r3.kwargs)
        r5 == parse_point_input(param, r4.kwargs)
    IN  IF r1.outcome # "none" THEN r1
        ELSE IF r2.outcome # "none" THEN r2
        ELSE IF r3.outcome # "none" THEN r3
        ELSE IF r4.outcome # "none" THEN r4
        ELSE r5

\* parse_metadata(param, kwargs) (lines 216-219): one entry
\* ('processing:meta:%s' % k, str(v)) for each entry of param.metadata()
parse_metadata(param, kwargs) ==
    [kwargs EXCEPT !.metadata = @ \o
        [i \in 1..Len(param.metadata) |->
            << CASE param.metadata[i][1] = "wps:as_reference"
                       -> "processing:meta:wps:as_reference",
               IF param.metadata[i][2] THEN "True" ELSE "False" >>]]

\* lines 352-357: the input of the matcher that recognised the parameter, its
\* metadata being the list parse_metadata extends
InputOrNotSupported(param, r) ==
    IF r.outcome = "none"
    THEN [outcome |-> "ProcessingInputTypeNotSupported", inp |-> None,
          kwargs |-> r.kwargs]
    ELSE IF r.outcome = "ok"
    THEN [outcome |-> "ok",
          inp |-> [r.inp EXCEPT !.metadata = parse_metadata(param, r.kwargs).metadata],
          kwargs |-> parse_metadata(param, r.kwargs)]
    ELSE [outcome |-> r.outcome, inp |-> r.inp, kwargs |-> r.kwargs]

\* parse_input_definition(param, alg, context): the outcome and the input
parse_input_definition(param, context) ==
    InputOrNotSupported(param, FirstMatch(param, context))

(***************************************************************************)
(* Output converters                                                       *)
(***************************************************************************)
\* QgsProcessingOutputDefinition.type() of each output class
OutputType ==
    [c \in {"OutputString", "OutputNumber", "OutputVectorLayer", "OutputRasterLayer",
            "OutputMapLayer", "OutputMultipleLayers", "OutputHtml", "OutputFile",
            "OutputFolder", "OutputBoolean"} |->
        CASE c = "OutputString" -> "outputString"
          [] c = "OutputNumber" -> "outputNumber"
          [] c = "OutputVectorLayer" -> "outputVector"
          [] c = "OutputRasterLayer" -> "outputRaster"
          [] c = "OutputMapLayer" -> "outputLayer"
          [] c = "OutputMultipleLayers" -> "outputMultilayer"
          [] c = "OutputHtml" -> "outputHtml"
          [] c = "OutputFile" -> "outputFile"
          [] c = "OutputFolder" -> "outputFolder"
          [] c = "OutputBoolean" -> "outputBoolean"]

\* the classes an output class derives from (QgsProcessingOutputHtml is a
\* QgsProcessingOutputFile)
OutputBaseClasses(c) == IF c = "OutputHtml" THEN {"OutputHtml", "OutputFile"} ELSE {c}

\* isinstance(outdef, classes)
IsOutputInstance(outdef, classes) == OutputBaseClasses(outdef.cls) \cap classes # {}

\* the output classes the layer matcher accepts (line 106)
OUTPUT_LAYER_TYPES == {"OutputVectorLayer", "OutputRasterLayer"}

OutDefs == { [cls |-> c, typ |-> OutputType[c], name |-> <<"o">>,
              description |-> <<"d">>] : c \in DOMAIN OutputType }

\* what alg.parameterDefinition(outdef.name()) gives: no algorithm or no such
\* parameter (None), or the parameter of that name
PairedInputs ==
    {None, Descriptor("String", FALSE)}
        \cup { [Descriptor("FileDestination", FALSE) EXCEPT
                    !.defaultFileExtension = e, !.metadata = m] :
                 e \in {<<"t", "x", "t">>, <<"z", "z">>},
                 m \in { <<>>, << <<"wps:as_reference", TRUE>> >>,
                         << <<"wps:as_reference", FALSE>> >> } }

\* dict.get(key, default) on a sequence of <<key, value>> pairs
MetadataGet(metadata, key, default) ==
    IF \E i \in 1..Len(metadata) : metadata[i][1] = key
    THEN metadata[CHOOSE i \in 1..Len(metadata) : metadata[i][1] = key][2]
    ELSE default

\* LiteralOutput(**kwargs), ComplexOutput(**kwargs)
MakeOutput(shape, kwargs, data_type, formats, as_reference) ==
    [shape |-> shape, identifier |-> kwargs.identifier, title |-> kwargs.title,
     abstract |-> kwargs.abstract, data_type |-> data_type,
     supported_formats |-> formats, as_reference |-> as_reference]

OutMatched(out, lg) == [outcome |-> "ok", out |-> out, log |-> lg]

OutNotMatched == [outcome |-> "none", out |-> None, log |-> <<>>]

\* parse_literal_output(outdef, kwargs)
parse_literal_output(outdef, kwargs) ==
    IF outdef.typ = "outputString"
    THEN OutMatched(MakeOutput("Literal", kwargs, Set("string"), Unset, Unset), <<>>)
    ELSE IF outdef.typ = "outputNumber"
    THEN OutMatched(MakeOutput("Literal", kwargs, Set("float"), Unset, Unset), <<>>)
    ELSE OutNotMatched

\* parse_layer_output(outdef, kwargs)
parse_layer_output(outdef, kwargs) ==
    IF IsOutputInstance(outdef, OUTPUT_LAYER_TYPES)
    THEN IF IsOutputInstance(outdef, {"OutputVectorLayer"})
         THEN OutMatched(MakeOutput("Complex", kwargs, Unset,
                    Set(<<"application/x-ogc-wms", "application/x-ogc-wfs">>),
                    Set(TRUE)), <<>>)
         ELSE IF IsOutputInstance(outdef, {"OutputRasterLayer"})
         THEN OutMatched(MakeOutput("Complex", kwargs, Unset,
                    Set(<<"application/x-ogc-wms", "application/x-ogc-wcs">>),
                    Set(TRUE)), <<>>)
         ELSE OutMatched(MakeOutput("Complex", kwargs, Unset,
                    Set(<<"application/x-ogc-wms">>), Set(TRUE)), <<>>)
    ELSE OutNotMatched

\* parse_file_output(outdef, kwargs, alg); conf is the configured
\* outputfile_as_reference, inputdef what the algorithm holds under the name
parse_file_output(outdef, kwargs, inputdef, conf) ==
    IF IsOutputInstance(outdef, {"OutputHtml"})
    THEN OutMatched(MakeOutput("Complex", kwargs, Unset,
                Set(<<MimeType(<<".", "h", "t", "m", "l">>)>>), Unset), <<>>)
    ELSE IF IsOutputInstance(outdef, {"OutputFile"})
    THEN LET paired == inputdef # None /\ inputdef.cls = "FileDestination"
             mime == IF paired
                     THEN MimeType(<<".">> \o inputdef.defaultFileExtension)
                     ELSE "None"
             as_reference == IF paired
                             THEN MetadataGet(inputdef.metadata, "wps:as_reference", conf)
                             ELSE conf
         IN  IF mime = "None"
             THEN OutMatched(MakeOutput("Complex", kwargs, Unset,
                        Set(<<"application/octet-stream">>), Set(as_reference)),
                        << <<"warning", "Cannot set file type for output">> >>)
             ELSE OutMatched(MakeOutput("Complex", kwargs, Unset, Set(<<mime>>),
                        Set(as_reference)), <<>>)
    ELSE OutNotMatched

\* parse_output_definition(outdef, alg, context)
parse_output_definition(outdef, inputdef, conf) ==
    LET kwargs == [identifier |-> outdef.name, title |-> outdef.description,
                   abstract |-> outdef.description]
        r1 == parse_literal_output(outdef, kwargs)
        r2 == parse_layer_output(outdef, kwargs)
        r3 == parse_file_output(outdef, kwargs, inputdef, conf)
    IN  IF r1.outcome # "none" THEN r1
        ELSE IF r2.outcome # "none" THEN r2
        ELSE IF r3.outcome # "none" THEN r3
        ELSE [outcome |-> "ProcessingOutputTypeNotSupported", out |-> None,
              log |-> <<>>]

(***************************************************************************)
(* os.path                                                                 *)
(***************************************************************************)
RECURSIVE NormComps(_, _, _)
\* the loop of posixpath.normpath over the components of the path
NormComps(comps, new_comps, initial_slashes) ==
    IF Len(comps) = 0 THEN new_comps
    ELSE LET comp == Head(comps)
             dotdot == <<".", ".">>
         IN  IF comp = <<>> \/ comp = <<".">>
             THEN NormComps(Tail(comps), new_comps, initial_slashes)
             ELSE IF \/ comp # dotdot
                     \/ (initial_slashes = 0 /\ Len(new_comps) = 0)
                     \/ (Len(new_comps) > 0 /\ Last(new_comps) = dotdot)
             THEN NormComps(Tail(comps), Append(new_comps, comp), initial_slashes)
             ELSE IF Len(new_comps) > 0
             THEN NormComps(Tail(comps), SubSeq(new_comps, 1, Len(new_comps) - 1),
                            initial_slashes)
             ELSE NormComps(Tail(comps), new_comps, initial_slashes)

\* posixpath.normpath(path)
normpath(path) ==
    IF Len(path) = 0 THEN <<".">>
    ELSE LET initial_slashes ==
                 IF ~StartsWith(path, <<"/">>) THEN 0
                 ELSE IF StartsWith(path, <<"/", "/">>)
                         /\ ~StartsWith(path, <<"/", "/", "/">>) THEN 2
                 ELSE 1
             comps  == NormComps(Split(path, "/"), <<>>, initial_slashes)
             joined == [i \in 1..initial_slashes |-> "/"] \o Join(comps, "/")
         IN  IF Len(joined) = 0 THEN <<".">> ELSE joined

\* posixpath.basename(p): what follows the last '/'
basename(p) == From(p, RFind(p, "/") + 1)

\* posixpath.splitext(p): the extension starts at the last '.' of the last
\* component, leading dots of the component not counting
splitext(p) ==
    LET sepIndex == RFind(p, "/")
        dotIndex == RFind(p, ".")
    IN  IF dotIndex > sepIndex
           /\ \E i \in (sepIndex + 1)..(dotIndex - 1) : p[i] # "."
        THEN <<SubSeq(p, 1, dotIndex - 1), From(p, dotIndex)>>
        ELSE <<p, <<>>>>

\* posixpath.join(a, p)
PathJoin(a, p) ==
    IF StartsWith(p, <<"/">>) THEN p
    ELSE IF Len(a) = 0 \/ Last(a) = "/" THEN a \o p
    ELSE a \o <<"/">> \o p

(***************************************************************************)
(* urllib.parse.urlencode                                                  *)
(***************************************************************************)
RECURSIVE quote_plus(_)
\* quote_plus(s): a space becomes '+', every character but letters, digits
\* and '_.-~' its '%XX'
quote_plus(s) ==
    IF Len(s) = 0 THEN <<>>
    ELSE (CASE Head(s) = " " -> <<"+">>
            [] Head(s) = "/" -> <<"%", "2", "F">>
            [] Head(s) = ":" -> <<"%", "3", "A">>
            [] Head(s) = "&" -> <<"%", "2", "6">>
            [] Head(s) = "=" -> <<"%", "3", "D">>
            [] Head(s) = "?" -> <<"%", "3", "F">>
            [] OTHER -> <<Head(s)>>) \o quote_plus(Tail(s))

\* the step of the try block in which QGIS throws, if any
Raises == {"none", "rect", "select"}

(***************************************************************************)
(* input_to_processing                                                     *)
(***************************************************************************)
\* the 0-based index of the last element equal to x
ListIndexLast(seq, x) ==
    (CHOOSE i \in 1..Len(seq) : seq[i] = x /\ \A j \in (i+1)..Len(seq) : seq[j] # x) - 1

\* list.index(x): the 0-based index of the first element equal to x
ListIndex(seq, x) ==
    (CHOOSE i \in 1..Len(seq) : seq[i] = x /\ \A j \in 1..(i-1) : seq[j] # x) - 1

Contains(seq, x) == \E i \in 1..Len(seq) : seq[i] = x

\* the outcome of a decode: the returned (name, value) or the exception, the
\* selection and descriptor flag it leaves, what it logs and what it writes
Decoded(param, value, sel, flag, lg) ==
    [outcome |-> "ok", name |-> Str(param.name), value |-> value, sel |-> sel,
     flag |-> flag, log |-> lg]

DecodeRaised(exception, sel, flag, lg) ==
    [outcome |-> exception, name |-> None, value |-> None, sel |-> sel,
     flag |-> flag, log |-> lg]

\* the path were the submitted value taken for it
SinkPathOfValue(param, inp) == inp[1].data

\* the path of a destination layer (line 576)
SinkPath(param, inp) ==
    <<".", "/">> \o param.name \o <<".">> \o param.defaultFileExtension

\* lines 572-578: destination sinks
DecodeDestination(param, inp, sel) ==
    IF Len(inp) = 0 THEN DecodeRaised("IndexError", sel, FALSE, <<>>)
    ELSE Decoded(param,
                 [t |-> "QgsProcessingOutputLayerDefinition",
                  sink |-> SinkPath(param, inp),
                  destinationProject |-> "destination_project",
                  destinationName |-> inp[1].data],
                 sel, FALSE, <<>>)

\* line 583: the feature source definition of a parsed layer spec
FeatureSourceOf(param, r, flag) ==
    IF r.outcome # "ok" THEN DecodeRaised(r.outcome, r.sel, flag, r.log)
    ELSE Decoded(param,
                 [t |-> "QgsProcessingFeatureSourceDefinition",
                  source |-> r.path.s,
                  selectedFeaturesOnly |-> r.has_selection],
                 r.sel, flag, r.log)

\* lines 580-583: feature sources, parsed with selection enabled
DecodeFeatureSource(param, inp, sel, flag, raises) ==
    IF Len(inp) = 0 THEN DecodeRaised("IndexError", sel, flag, <<>>)
    ELSE FeatureSourceOf(param, parse_layer_spec(inp[1].data, TRUE, sel, raises), flag)

\* selection enabled for the other layer parameters too
LayerAllowSelectionOn == TRUE

\* whether the other layer parameters parse with selection enabled (lines 587, 589)
LayerAllowSelection == FALSE

\* lines 585-589: the other layer parameters
LayersOf(param, parsed, sel, flag) ==
    LET bad == { i \in 1..Len(parsed) : parsed[i].outcome # "ok" }
        first == CHOOSE i \in bad : \A j \in bad : i <= j
    IN  IF Len(parsed) = 0 THEN DecodeRaised("IndexError", sel, flag, <<>>)
        ELSE IF bad # {}
        THEN DecodeRaised(parsed[first].outcome, parsed[first].sel, flag,
                          parsed[first].log)
        ELSE IF Len(parsed) > 1
        THEN Decoded(param, PyList([i \in 1..Len(parsed) |-> parsed[i].path.s]),
                     parsed[Len(parsed)].sel, flag, <<>>)
        ELSE Decoded(param, parsed[1].path, parsed[1].sel, flag, parsed[1].log)

DecodeLayers(param, inp, sel, flag, raises) ==
    LayersOf(param,
             [i \in 1..Len(inp) |->
                parse_layer_spec(inp[i].data, LayerAllowSelection, sel, raises)],
             sel, flag)

\* input_to_point(inp): lines 534-554
input_to_point(i) ==
    LET geomOk == i.data_format \in {"GEOJSON", "GML"} /\ i.data.valid
    IN  IF ~geomOk THEN [outcome |-> "NoApplicableCode", value |-> None]
        ELSE IF i.data.srs = "valid"
        THEN [outcome |-> "ok",
              value |-> [t |-> "QgsReferencedPointXY", wkt |-> i.data.wkt,
                         srs |-> i.data.srs]]
        ELSE [outcome |-> "ok", value |-> [t |-> "QgsGeometry", wkt |-> i.data.wkt]]

\* input_to_extent(inp): lines 506-512
input_to_extent(i) ==
    [t |-> "QgsReferencedRectangle", xMin |-> i.data[1], yMin |-> i.data[3],
     xMax |-> i.data[2], yMax |-> i.data[4], crs |-> i.crs]

\* input_to_file(inp, param, context): lines 515-531, the base name of the
\* file written under the working directory
input_to_file(i, param) == param.name \o param.extension

\* lines 594-600: enum values to indices
DecodeEnum(param, inp, sel, flag) ==
    LET opts == param.options
    IN  IF param.allowMultiple /\ Len(inp) > 1
        THEN IF \A i \in 1..Len(inp) : Contains(opts, inp[i].data)
             THEN Decoded(param,
                          PyList([i \in 1..Len(inp) |-> ListIndex(opts, inp[i].data)]),
                          sel, flag, <<>>)
             ELSE DecodeRaised("ValueError", sel, flag, <<>>)
        ELSE IF Len(inp) = 0 THEN DecodeRaised("IndexError", sel, flag, <<>>)
        ELSE IF Contains(opts, inp[1].data)
        THEN Decoded(param, PyInt(ListIndex(opts, inp[1].data)), sel, flag, <<>>)
        ELSE DecodeRaised("ValueError", sel, flag, <<>>)

\* lines 609-614: file and folder destinations
TruncatedTo(param, data, value, sel, flag) ==
    Decoded(param, Str(value), sel, flag,
            IF value # data
            THEN << <<"warning", "Value for file or folder destination has been truncated">> >>
            ELSE <<>>)

DecodeFileDestination(param, inp, sel, flag) ==
    IF Len(inp) = 0 THEN DecodeRaised("IndexError", sel, flag, <<>>)
    ELSE TruncatedTo(param, inp[1].data, basename(normpath(inp[1].data)), sel, flag)

\* the last branch were a missing required value refused
DecodeFallbackRequired(param, inp, sel, flag) ==
    IF Len(inp) > 0 THEN Decoded(param, Str(inp[1].data), sel, flag, <<>>)
    ELSE IF ~is_optional(param)
    THEN DecodeRaised("MissingParameterValue", sel, flag, <<>>)
    ELSE Decoded(param, None, sel, flag, <<>>)

\* lines 620-627: every other kind
DecodeFallback(param, inp, sel, flag) ==
    IF Len(inp) > 0 THEN Decoded(param, Str(inp[1].data), sel, flag, <<>>)
    ELSE Decoded(param, None, sel, flag,
                 IF ~is_optional(param)
                 THEN << <<"warning", "Required input has no value">> >>
                 ELSE <<>>)

\* input_to_processing(identifier, inp, alg, context) for the parameter the
\* algorithm holds under the identifier, on a layer whose selection is sel and
\* a descriptor whose supportsNonFileBasedOutput is flag
input_to_processing(param, inp, sel, flag, raises) ==
    LET typ == param.typ
    IN  IF IsInstance(param, DESTINATION_LAYER_TYPES)
        THEN DecodeDestination(param, inp, sel)
        ELSE IF IsInstance(param, {"FeatureSource"})
        THEN DecodeFeatureSource(param, inp, sel, flag, raises)
        ELSE IF IsInstance(param, INPUT_LAYER_TYPES)
        THEN DecodeLayers(param, inp, sel, flag, raises)
        ELSE IF IsInstance(param, {"Point"})
        THEN IF Len(inp) = 0 THEN DecodeRaised("IndexError", sel, flag, <<>>)
             ELSE LET r == input_to_point(inp[1])
                  IN  IF r.outcome = "ok" THEN Decoded(param, r.value, sel, flag, <<>>)
                      ELSE DecodeRaised(r.outcome, sel, flag, <<>>)
        ELSE IF typ = "enum" THEN DecodeEnum(param, inp, sel, flag)
        ELSE IF typ = "extent"
        THEN IF Len(inp) = 0 THEN DecodeRaised("IndexError", sel, flag, <<>>)
             ELSE Decoded(param, input_to_extent(inp[1]), sel, flag, <<>>)
        ELSE IF typ = "crs"
        THEN IF Len(inp) = 0 THEN DecodeRaised("IndexError", sel, flag, <<>>)
             ELSE Decoded(param, Str(inp[1].data), sel, flag, <<>>)
        ELSE IF typ \in {"fileDestination", "folderDestination"}
        THEN DecodeFileDestination(param, inp, sel, flag)
        ELSE IF typ = "file"
        THEN IF Len(inp) = 0 THEN DecodeRaised("IndexError", sel, flag, <<>>)
             ELSE Decoded(param, Str(input_to_file(inp[1], param)), sel, flag, <<>>)
        ELSE DecodeFallback(param, inp, sel, flag)

(***************************************************************************)
(* Submitted values                                                        *)
(***************************************************************************)
\* the lists of at most MaxInp submitted values whose data are drawn from D
InpLists(D) == UNION { [1..n -> { [data |-> d] : d \in D }] : n \in 0..MaxInp }

\* paths submitted for a file or folder destination
DestinationPaths ==
    UNION { [1..n -> {"/", ".", "a"}] : n \in 0..MaxPathLen }
        \cup { <<".", ".", "/", ".", ".", "/", "e", "t", "c", "/",
                 "p", "a", "s", "s", "w", "d">> }

PointValues ==
    { [data |-> [valid |-> v, srs |-> r, wkt |-> <<"P">>], data_format |-> f] :
        v \in BOOLEAN, r \in {"none", "valid", "invalid"},
        f \in {"GEOJSON", "GML", "TEXT"} }

\* the kinds the last branch of the decoder handles
FallbackTypes ==
    {"string", "boolean", "number", "distance", "field", "band", "matrix", "range",
     "expression"}

\* the descriptors values are decoded for: the fields the decoder does not
\* read are left at one value
DecodeParams ==
    { q \in Params :
        /\ q.defaultValue = None
        /\ q.dataTypes = <<>>
        /\ q.minimumNumberInputs = 0
        /\ q.layerType \in {"TypeVectorAnyGeometry", "TypeMapLayer"}
        /\ q.dataType \in {"Double", "TypeVectorAnyGeometry"}
        /\ q.behavior = "File"
        /\ (q.optional => q.typ \in FallbackTypes) }

\* the lists of values submitted for a parameter
ValuesFor(param) ==
    IF IsInstance(param, DESTINATION_LAYER_TYPES)
    THEN InpLists({<<"n">>, <<"m">>})
    ELSE IF IsInstance(param, {"FeatureSource"})
    THEN {<<>>} \cup { << [data |-> x] >> : x \in SelectionSpecs }
    ELSE IF IsInstance(param, INPUT_LAYER_TYPES) THEN InpLists(ListSpecs)
    ELSE IF IsInstance(param, {"Point"})
    THEN {<<>>} \cup { <<v>> : v \in PointValues }
    ELSE IF param.typ = "enum"
    THEN InpLists(OptionChars) \cup {<< [data |-> <<"z">>] >>}
    ELSE IF param.typ = "extent"
    THEN {<<>>} \cup { << [data |-> <<0, 2, 1, 3>>, crs |-> c] >> :
                        c \in {"EPSG:4326", "EPSG:2154"} }
    ELSE IF param.typ \in {"fileDestination", "folderDestination"}
    THEN {<<>>} \cup { << [data |-> x] >> : x \in DestinationPaths }
    ELSE InpLists({<<"v">>, <<"w">>})

(***************************************************************************)
(* processing_to_output                                                    *)
(***************************************************************************)
\* str.format(file=file_name) on a template given by its pieces, "{file}"
\* being the replacement field
RECURSIVE Format(_, _)
Format(template, file_name) ==
    IF Len(template) = 0 THEN <<>>
    ELSE (IF Head(template) = "{file}" THEN file_name ELSE <<Head(template)>>)
            \o Format(Tail(template), file_name)

\* the attributes processing_to_output may set on an output, none set
NoAttributes ==
    [output_format |-> Unset, url |-> Unset, file |-> Unset, data |-> Unset]

\* the result of an output conversion: the attributes set on the output,
\* what is logged and whether the output is returned
OutputResult(attrs, lg, returned) ==
    [attrs |-> attrs, log |-> lg, returned |-> returned]

\* to_output_file(file_name, out, context) (lines 636-644); as_reference is
\* false on an output built without it
to_output_file(file_name, out, context, attrs) ==
    IF out.as_reference # Unset /\ out.as_reference[1]
    THEN [attrs EXCEPT !.url = Set(Format(context.store_url, file_name))]
    ELSE [attrs EXCEPT !.file = Set(PathJoin(context.workdir, file_name))]

\* processing_to_output(value, outdef, out, output_uri, context)
\* (lines 647-667)
processing_to_output(value, outdef, out, output_uri, context) ==
    IF IsOutputInstance(outdef, OUTPUT_LAYER_TYPES)
    THEN OutputResult(
            [NoAttributes EXCEPT
                !.output_format = Set("application/x-ogc-wms"),
                !.url = Set(output_uri \o <<"&">>
                            \o quote_plus(<<"l", "a", "y", "e", "r">>)
                            \o <<"=">> \o quote_plus(value.s))],
            <<>>, FALSE)
    ELSE IF IsOutputInstance(outdef, {"OutputHtml"})
    THEN OutputResult(
            to_output_file(value.s, out, context,
                [NoAttributes EXCEPT !.output_format =
                    Set(MimeType(<<".", "h", "t", "m", "l">>))]),
            <<>>, TRUE)
    ELSE IF IsOutputInstance(outdef, {"OutputFile"})
    THEN IF MimeType(Lower(splitext(value.s)[2])) = "None"
         THEN OutputResult(
                to_output_file(value.s, out, context,
                    [NoAttributes EXCEPT
                        !.output_format = Set("application/octet-stream")]),
                << <<"warning", "Cannot get file type for output">> >>, TRUE)
         ELSE OutputResult(
                to_output_file(value.s, out, context,
                    [NoAttributes EXCEPT !.output_format =
                        Set(MimeType(Lower(splitext(value.s)[2])))]),
                <<>>, TRUE)
    ELSE OutputResult([NoAttributes EXCEPT !.data = Set(value)], <<>>, FALSE)

\* the outputs parse_output_definition builds for an output definition, none
\* for a definition it refuses
OutputsOf(outdef) ==
    { parse_output_definition(outdef, inputdef, conf).out :
        inputdef \in { i \in PairedInputs :
                         outdef.cls = "OutputFile" \/ i = None },
        conf \in BOOLEAN } \ {None}

\* the values an algorithm yields for an output definition: a layer name, a
\* file name, a raw value
OutputValues(outdef) ==
    IF IsOutputInstance(outdef, OUTPUT_LAYER_TYPES)
    THEN { Str(<<"a">>), Str(<<"a", " ", "b">>), Str(<<"d", "/", "a">>) }
    ELSE IF IsOutputInstance(outdef, {"OutputFile"})
    THEN { Str(f) : f \in
            { <<"o", ".", "t", "x", "t">>, <<"o", ".", "T", "X", "T">>,
              <<"o", ".", "z", "z">>, <<"r", ".", "h", "t", "m", "l">>,
              <<".", "t", "x", "t">>, <<"o">>, <<"d", ".", "x", "/", "o">>,
              <<"/", "o", ".", "t", "x", "t">> } }
    ELSE { Str(<<"x">>), PyInt(1) }

\* processing contexts: the store url template and the working directory
ProcessingContexts ==
    { [store_url |-> <<"h", ":", "/", "s", "/", "{file}">>, workdir |-> w] :
        w \in { <<"/", "w">>, <<"/", "w", "/">> } }

(***************************************************************************)
(* State machine                                                           *)
(***************************************************************************)
Executions == {"e1", "e2"}

\* an execution that has not started to decode its feature source
Idle == [pc |-> "idle", layerspec |-> <<>>, raises |-> "none",
         has_selection |-> FALSE, found |-> {}]

Init ==
    /\ selected = {}
    /\ supportsNonFileBasedOutput = [n \in { q.name : q \in Params } |-> TRUE]
    /\ log = <<>>
    /\ call = [op |-> "none"]
    /\ exec = [e \in Executions |-> Idle]

\* a call of parse_layer_spec (lines 456-503)
LayerSpecParsed(layerspec, allow_selection, raises, r) ==
    /\ selected' = r.sel
    /\ log' = r.log
    /\ call' = [op |-> "parse_layer_spec", layerspec |-> layerspec,
                allow_selection |-> allow_selection, raises |-> raises,
                before |-> selected,
                outcome |-> r.outcome, path |-> r.path,
                has_selection |-> r.has_selection]
    /\ UNCHANGED <<supportsNonFileBasedOutput, exec>>

ParseLayerSpec ==
    \E layerspec \in LayerSpecs, allow_selection \in BOOLEAN :
        \E raises \in IF allow_selection THEN Raises ELSE {"none"} :
            /\ call.op = "none"
            /\ LayerSpecParsed(layerspec, allow_selection, raises,
                   parse_layer_spec(layerspec, allow_selection, selected, raises))

\* the map contexts a descriptor is translated under: only layer parameters
\* read the project
ContextsOf(param) ==
    IF IsInstance(param, INPUT_LAYER_TYPES) THEN MapContexts ELSE {None}

\* a call of parse_input_definition (lines 317-357)
InputDefinitionParsed(param, context, r) ==
    /\ call' = [op |-> "parse_input_definition", param |-> param,
                context |-> context, outcome |-> r.outcome, inp |-> r.inp,
                kwargs |-> r.kwargs]
    /\ log' = <<>>
    /\ UNCHANGED <<selected, supportsNonFileBasedOutput, exec>>

ParseInputDefinition ==
    \E param \in Params :
        \E context \in ContextsOf(param) :
            /\ call.op = "none"
            /\ InputDefinitionParsed(param, context,
                                     parse_input_definition(param, context))

\* a call of parse_output_definition (lines 429-449)
OutputDefinitionParsed(outdef, inputdef, conf, r) ==
    /\ call' = [op |-> "parse_output_definition", outdef |-> outdef,
                inputdef |-> inputdef, conf |-> conf,
                outcome |-> r.outcome, out |-> r.out]
    /\ log' = r.log
    /\ UNCHANGED <<selected, supportsNonFileBasedOutput, exec>>

ParseOutputDefinition ==
    \E outdef \in OutDefs, conf \in BOOLEAN :
        \E inputdef \in IF outdef.cls = "OutputFile" THEN PairedInputs ELSE {None} :
            /\ call.op = "none"
            /\ OutputDefinitionParsed(outdef, inputdef, conf,
                   parse_output_definition(outdef, inputdef, conf))

\* a call of processing_to_output (lines 647-667): the attributes are set on
\* the output the caller passes
OutputConverted(value, outdef, out, output_uri, context, r) ==
    /\ call' = [op |-> "processing_to_output", value |-> value, outdef |-> outdef,
                output_uri |-> output_uri, context |-> context,
                out |-> r.attrs @@ out, returned |-> r.returned]
    /\ log' = r.log
    /\ UNCHANGED <<selected, supportsNonFileBasedOutput, exec>>

ProcessingToOutput ==
    \E outdef \in OutDefs, output_uri \in { <<"m", "?", "a", "=", "1">> },
       context \in ProcessingContexts :
        \E out \in OutputsOf(outdef), value \in OutputValues(outdef) :
            /\ call.op = "none"
            /\ OutputConverted(value, outdef, out, output_uri, context,
                   processing_to_output(value, outdef, out, output_uri, context))

\* a call of to_output_file (lines 636-644)
ToOutputFile ==
    \E outdef \in { d \in OutDefs : IsOutputInstance(d, {"OutputFile"}) },
       context \in ProcessingContexts :
        \E out \in OutputsOf(outdef), file_name \in OutputValues(outdef) :
            /\ call.op = "none"
            /\ call' = [op |-> "to_output_file", file_name |-> file_name,
                        context |-> context,
                        out |-> to_output_file(file_name.s, out, context,
                                               NoAttributes) @@ out,
                        returned |-> TRUE]
            /\ log' = <<>>
            /\ UNCHANGED <<selected, supportsNonFileBasedOutput, exec>>

\* a call of input_to_processing (lines 557-629)
InputDecoded(param, inp, raises, r) ==
    /\ selected' = r.sel
    /\ supportsNonFileBasedOutput' =
           [supportsNonFileBasedOutput EXCEPT ![param.name] = r.flag]
    /\ log' = r.log
    /\ call' = [op |-> "input_to_processing", param |-> param,
                inp |-> inp, raises |-> raises, before |-> selected,
                outcome |-> r.outcome, name |-> r.name, value |-> r.value]
    /\ UNCHANGED exec

InputToProcessing ==
    \E param \in DecodeParams :
        \E inp \in ValuesFor(param) :
            \E raises \in IF IsInstance(param, {"FeatureSource"}) THEN Raises ELSE {"none"} :
                /\ call.op = "none"
                /\ InputDecoded(param, inp, raises,
                       input_to_processing(param, inp, selected,
                           supportsNonFileBasedOutput[param.name], raises))

\* the caller takes the result of the last call; the adapter is synchronous,
\* so the next call starts only then
Return ==
    /\ call.op # "none"
    /\ call' = [op |-> "none"]
    /\ log' = <<>>
    /\ UNCHANGED <<selected, supportsNonFileBasedOutput, exec>>

Next ==
    \/ ParseLayerSpec
    \/ ParseInputDefinition
    \/ ParseOutputDefinition
    \/ InputToProcessing
    \/ ProcessingToOutput
    \/ ToOutputFile
    \/ Return

Spec == Init /\ [][Next]_vars

(***************************************************************************)
(* Two executions decoding feature sources on the same live layer          *)
(*                                                                         *)
(* Each execution decodes one feature-source parameter (lines 580-583),    *)
(* which runs parse_layer_spec with selection enabled, and then runs its   *)
(* algorithm, which reads the selected features of the layer the           *)
(* QgsProcessingFeatureSourceDefinition names.  The layer is the object    *)
(* the shared project holds; lines 488-499 take no lock, so the steps of   *)
(* two executions are taken in any order.                                  *)
(***************************************************************************)
\* the feature-source specs the two executions submit, all on the live
\* vector layer 'a'
ConcurrentSpecs ==
    { <<"l", "a", "y", "e", "r", ":", "a">> \o q :
        q \in { <<>>,
                <<"?", "r", "e", "c", "t", "=", "1">>,
                <<"?", "s", "e", "l", "e", "c", "t", "=", "2">>,
                <<"?", "r", "e", "c", "t", "=", "1", "&", "s", "e", "l", "e", "c", "t", "=", "1", "2">>,
                <<"?", "r", "e", "c", "t", "=", "1", ",", "2", "&", "s", "e", "l", "e", "c", "t", "=", "2">> } }

\* the 'rect' and 'select' values of a layer spec (lines 475-477)
QueryOf(layerspec) == QsTable[UrlTable[layerspec].query]

\* lines 464-487: where parse_layer_spec stands when it has parsed the url of
\* the spec, looked the layer up and read its type
AfterLookup(u, qs) ==
    IF BadScheme(u) THEN "failed"
    ELSE IF Len(qs.rect) = 0 /\ Len(qs.select) = 0 THEN "decoded"
    ELSE IF getMapLayer(SchemePath(u)) = None THEN "failed"
    ELSE IF LiveLayers[SchemePath(u)] # "VectorLayer" THEN "decoded"
    ELSE "rect"

\* lines 481 and 485: what that part of parse_layer_spec logs
LookupLog(u, qs) ==
    IF BadScheme(u) \/ (Len(qs.rect) = 0 /\ Len(qs.select) = 0) THEN <<>>
    ELSE IF getMapLayer(SchemePath(u)) = None
    THEN << <<"error", "No layer path for url">> >>
    ELSE IF LiveLayers[SchemePath(u)] # "VectorLayer"
    THEN << <<"warning", "Can apply selection only to vector layer">> >>
    ELSE <<>>

\* lines 580-582 and 464-487: execution e starts to decode its feature source
StartDecode(e) ==
    \E layerspec \in ConcurrentSpecs, raises \in Raises :
        /\ exec[e].pc = "idle"
        /\ exec' = [exec EXCEPT ![e] =
              [pc |-> AfterLookup(UrlTable[layerspec], QueryOf(layerspec)),
               layerspec |-> layerspec, raises |-> raises,
               has_selection |-> Len(QueryOf(layerspec).rect) > 0
                                 \/ Len(QueryOf(layerspec).select) > 0,
               found |-> {}]]
        /\ log' = LookupLog(UrlTable[layerspec], QueryOf(layerspec))
        /\ UNCHANGED <<selected, supportsNonFileBasedOutput, call>>

\* lines 491-494, and 500-503 when QGIS throws: the rectangle step of
\* execution e
RectStep(e, feat_rects) ==
    IF Len(feat_rects) = 0
    THEN /\ exec' = [exec EXCEPT ![e].pc = "select"]
         /\ log' = <<>>
         /\ UNCHANGED selected
    ELSE IF exec[e].raises = "rect"
    THEN /\ exec' = [exec EXCEPT ![e].pc = "failed"]
         /\ log' = << <<"error", "traceback">> >>
         /\ UNCHANGED selected
    ELSE /\ exec' = [exec EXCEPT ![e].pc = "select"]
         /\ log' = <<>>
         /\ selected' = selectByRect(selected, Last(feat_rects), "SetSelection")

SelectByRect(e) ==
    /\ exec[e].pc = "rect"
    /\ RectStep(e, QueryOf(exec[e].layerspec).rect)
    /\ UNCHANGED <<supportsNonFileBasedOutput, call>>

\* lines 496-499, and 500-503 when QGIS throws: the expression step of
\* execution e
ExpressionStep(e, feat_rects, feat_requests) ==
    IF Len(feat_requests) = 0
    THEN /\ exec' = [exec EXCEPT ![e].pc = "decoded"]
         /\ log' = <<>>
         /\ UNCHANGED selected
    ELSE IF exec[e].raises = "select"
    THEN /\ exec' = [exec EXCEPT ![e].pc = "failed"]
         /\ log' = << <<"error", "traceback">> >>
         /\ UNCHANGED selected
    ELSE /\ exec' = [exec EXCEPT ![e].pc = "decoded"]
         /\ log' = <<>>
         /\ selected' = selectByExpression(selected, Last(feat_requests),
                                           ExpressionBehavior(feat_rects))

SelectByExpression(e) ==
    /\ exec[e].pc = "select"
    /\ ExpressionStep(e, QueryOf(exec[e].layerspec).rect,
                      QueryOf(exec[e].layerspec).select)
    /\ UNCHANGED <<supportsNonFileBasedOutput, call>>

\* the algorithm of execution e runs on the decoded feature source (line 583):
\* with selectedFeaturesOnly it reads the selected features of the layer
RunAlgorithm(e) ==
    /\ exec[e].pc = "decoded"
    /\ exec' = [exec EXCEPT ![e].pc = "run",
                            ![e].found = IF exec[e].has_selection THEN selected
                                         ELSE Features]
    /\ log' = <<>>
    /\ UNCHANGED <<selected, supportsNonFileBasedOutput, call>>

\* execution e ends, with its response or with the exception of its decode
Finish(e) ==
    /\ exec[e].pc \in {"run", "failed"}
    /\ exec' = [exec EXCEPT ![e] = Idle]
    /\ log' = <<>>
    /\ UNCHANGED <<selected, supportsNonFileBasedOutput, call>>

NextConc ==
    \E e \in Executions :
        \/ StartDecode(e)
        \/ SelectByRect(e)
        \/ SelectByExpression(e)
        \/ RunAlgorithm(e)
        \/ Finish(e)

SpecConc == Init /\ [][NextConc]_vars

(***************************************************************************)
(* Properties                                                              *)
(***************************************************************************)
\* the call that has just returned or raised is parse_layer_spec
AfterParseLayerSpec == call.op = "parse_layer_spec"

AfterParseInputDefinition == call.op = "parse_input_definition"

AfterParseOutputDefinition == call.op = "parse_output_definition"

AfterInputToProcessing == call.op = "input_to_processing"

\* C1: parse_layer_spec resolves the path by the scheme of the layer spec.
\* A scheme other than '', 'file' and 'layer' raises InvalidParameterValue and
\* returns nothing, whatever allow_selection is; when the call returns, the
\* path is resolve_path(path component) with scheme 'file' and the path
\* component unchanged with scheme 'layer' or none, so that 'layer:a' and 'a'
\* both give 'a'; with selection disabled every accepted scheme returns.
C1_SchemeDecidesPath ==
    AfterParseLayerSpec =>
        /\ UrlTable[call.layerspec].scheme \notin {<<>>, S_file, S_layer}
              => call.outcome = "InvalidParameterValue" /\ call.path = None
        /\ (UrlTable[call.layerspec].scheme = S_file /\ call.outcome = "ok")
              => call.path = Str(resolve_path(UrlTable[call.layerspec].path))
        /\ (UrlTable[call.layerspec].scheme \in {<<>>, S_layer} /\ call.outcome = "ok")
              => call.path = Str(UrlTable[call.layerspec].path)
        /\ (UrlTable[call.layerspec].scheme \in {<<>>, S_file, S_layer}
                /\ ~call.allow_selection)
              => call.outcome = "ok" /\ ~call.has_selection
        /\ (call.layerspec \in {<<"a">>, <<"l", "a", "y", "e", "r", ":", "a">>}
                /\ ~call.allow_selection)
              => call.path = Str(<<"a">>)

\* a call on 'file:t/a' has returned the path resolved under the root
C1_Witness ==
    /\ AfterParseLayerSpec
    /\ call.layerspec = <<"f", "i", "l", "e", ":", "t", "/", "a">>
    /\ call.outcome = "ok"
    /\ call.path = Str(<<"/", "w", "/", "t", "/", "a">>)

\* the call named a live vector layer and asked for a selection on it
OnVectorLayer ==
    /\ AfterParseLayerSpec
    /\ call.allow_selection
    /\ ~BadScheme(UrlTable[call.layerspec])
    /\ getMapLayer(SchemePath(UrlTable[call.layerspec])) # None
    /\ LiveLayers[SchemePath(UrlTable[call.layerspec])] = "VectorLayer"

\* the selection the queries ask for: the features in the last rectangle, the
\* features matching the last expression, or those in both
AskedSelection(feat_rects, feat_requests) ==
    IF Len(feat_rects) > 0 /\ Len(feat_requests) > 0
    THEN FeaturesInRect(Last(feat_rects)) \cap FeaturesMatching(Last(feat_requests))
    ELSE IF Len(feat_rects) > 0 THEN FeaturesInRect(Last(feat_rects))
    ELSE FeaturesMatching(Last(feat_requests))

\* the selection of the layer is what the queries of the call ask for
SelectionIsAsked(qs) ==
    (Len(qs.rect) > 0 \/ Len(qs.select) > 0)
        => selected = AskedSelection(qs.rect, qs.select)

\* the rectangle has been applied although the expression step threw
RectangleWasFirst(qs) ==
    (Len(qs.rect) > 0 /\ Len(qs.select) > 0)
        => selected = FeaturesInRect(Last(qs.rect))

\* C2: when parse_layer_spec returns from a call with allow_selection on a
\* vector layer, the selection of the layer does not depend on the selection
\* it had before: it is rectangle /\ expression when both 'rect' and 'select'
\* are given, the rectangle selection with 'rect' alone and the expression
\* selection with 'select' alone.  The rectangle step comes first: when the
\* expression step throws, the rectangle selection is already on the layer.
C2_SelectionCombinator ==
    OnVectorLayer =>
        /\ call.outcome = "ok"
              => SelectionIsAsked(QueryOf(call.layerspec))
        /\ (call.outcome = "NoApplicableCode" /\ call.raises = "select")
              => RectangleWasFirst(QueryOf(call.layerspec))

\* 'a?rect=1&select=12' on a layer that had feature 2 selected leaves
\* feature 1 selected
C2_Witness ==
    /\ OnVectorLayer
    /\ call.layerspec = <<"a", "?", "r", "e", "c", "t", "=", "1", "&",
                          "s", "e", "l", "e", "c", "t", "=", "1", "2">>
    /\ call.outcome = "ok"
    /\ call.before = {2}
    /\ selected = {1}

\* C3: an optional descriptor always yields min_occurs = 0, the multi-layer
\* parameters whose minimumNumberInputs is 1 or more included, and a
\* descriptor that is not optional yields min_occurs = 0 only as a
\* multi-layer parameter.
C3_OptionalMeansMinOccursZero ==
    (AfterParseInputDefinition /\ call.outcome = "ok") =>
        /\ call.param.optional => call.inp.min_occurs = 0
        /\ (~call.param.optional /\ call.inp.min_occurs = 0)
              => call.param.typ = "multilayer"

\* an enum descriptor has been advertised whose default is the index i of one
\* of its options
EnumDefaultInRange ==
    /\ AfterParseInputDefinition
    /\ call.param.typ = "enum"
    /\ call.param.defaultValue.t = "int"
    /\ 0 <= call.param.defaultValue.i
    /\ call.param.defaultValue.i < Len(call.param.options)

\* the advertised default of the enum is the option string at index i
AdvertisesOption(options, i) ==
    /\ call.outcome = "ok"
    /\ call.inp.default = Str(options[i + 1])

\* what input_to_processing gives for the advertised default when a client
\* submits it back
DecodedDefault ==
    input_to_processing(call.param, << [data |-> call.inp.default.s] >>,
                        selected, TRUE, "none")

\* the decoded value r is the 0-based index of the first option equal to the
\* option at index i
FirstEqualOption(options, i, r) ==
    /\ r.outcome = "ok"
    /\ r.value.t = "int"
    /\ r.value.i \in 0..i
    /\ options[r.value.i + 1] = options[i + 1]
    /\ \A k \in 1..r.value.i : options[k] # options[i + 1]

\* C4 (as amended): for any option list O of an enum parameter and any index i
\* with 0 <= i < len(O), advertising default index i gives the option string
\* O[i], and decoding that string gives the least index j with O[j] = O[i]:
\* index i itself exactly when no earlier option equals O[i].
C4_EnumRoundTripFirstIndex ==
    EnumDefaultInRange =>
        /\ AdvertisesOption(call.param.options, call.param.defaultValue.i)
        /\ FirstEqualOption(call.param.options, call.param.defaultValue.i,
                            DecodedDefault)

\* C4 (as claimed): for any option list O, repeated options included, and any
\* index i in range, advertising default index i gives O[i] and decoding that
\* string gives back index i.
C4_EnumRoundTrip ==
    EnumDefaultInRange =>
        /\ AdvertisesOption(call.param.options, call.param.defaultValue.i)
        /\ DecodedDefault.outcome = "ok"
        /\ DecodedDefault.value = PyInt(call.param.defaultValue.i)

\* the options ['x', 'x'] with default index 1 advertise 'x', which decodes
\* to index 0
C4_Witness ==
    /\ EnumDefaultInRange
    /\ call.param.options = << <<"x">>, <<"x">> >>
    /\ call.param.defaultValue = PyInt(1)
    /\ call.inp.default = Str(<<"x">>)
    /\ DecodedDefault.value = PyInt(0)

\* a destination-sink parameter has been decoded
AfterDestinationDecode ==
    /\ AfterInputToProcessing
    /\ IsInstance(call.param, DESTINATION_LAYER_TYPES)

\* the returned reference: './<name>.<default extension>' in the destination
\* project of the context, named as the client asks
IsDestinationReference(param, inp) ==
    /\ call.outcome = "ok"
    /\ call.name = Str(param.name)
    /\ call.value.t = "QgsProcessingOutputLayerDefinition"
    /\ call.value.sink = <<".", "/">> \o param.name \o <<".">> \o param.defaultFileExtension
    /\ call.value.destinationProject = "destination_project"
    /\ call.value.destinationName = inp[1].data

\* C5: decoding a feature sink, vector destination or raster destination
\* always leaves the descriptor file-based only, and for a submitted value
\* returns a destination-layer reference whose path is
\* './<parameter name>.<default file extension>', bound to the destination
\* project; the path is the same for every submitted value, which only
\* becomes the destination name.
C5_SinkPathIsSynthesized ==
    AfterDestinationDecode =>
        /\ supportsNonFileBasedOutput[call.param.name] = FALSE
        /\ Len(call.inp) > 0 => IsDestinationReference(call.param, call.inp)

\* the raster destination 'out' with extension 'tif' decoded for the
\* submitted value 'n'
C5_Witness ==
    /\ AfterDestinationDecode
    /\ call.param.cls = "RasterDestination"
    /\ call.param.name = <<"o", "u", "t">>
    /\ call.param.defaultFileExtension = <<"t", "i", "f">>
    /\ call.inp = << [data |-> <<"n">>] >>
    /\ call.value.sink = <<".", "/", "o", "u", "t", ".", "t", "i", "f">>
    /\ call.value.destinationName = <<"n">>
    /\ supportsNonFileBasedOutput[<<"o", "u", "t">>] = FALSE

\* a path has been decoded for a fileDestination or folderDestination
AfterFileDestinationDecode ==
    /\ AfterInputToProcessing
    /\ call.param.typ \in {"fileDestination", "folderDestination"}
    /\ Len(call.inp) > 0

\* a single path component that names no directory above
IsBaseName(value) ==
    /\ ~Contains(value, "/")
    /\ value # <<".", ".">>

TruncationWarned ==
    \E i \in 1..Len(log) : log[i][1] = "warning"

\* C6: for a fileDestination or folderDestination parameter and every
\* submitted path the decode never fails and returns a base file name: one
\* path component without a directory separator that is never a reference to
\* the parent directory ('../../etc/passwd' gives 'passwd'); a truncation
\* warning is logged exactly when the returned value differs from the
\* submitted one.
C6_ReturnsBaseFileName ==
    AfterFileDestinationDecode =>
        /\ call.outcome = "ok"
        /\ call.value.t = "str"
        /\ IsBaseName(call.value.s)
        /\ TruncationWarned <=> call.value.s # call.inp[1].data
        /\ call.inp[1].data = <<".", ".", "/", ".", ".", "/", "e", "t", "c", "/",
                                "p", "a", "s", "s", "w", "d">>
              => call.value.s = <<"p", "a", "s", "s", "w", "d">>

\* the shape the claim gives each native kind, "none" for the kinds it leaves
\* unsupported
ClaimedShape(param) ==
    IF param.typ \in {"string", "boolean", "enum", "number", "field", "crs", "band",
                      "vector", "source", "raster", "layer", "multilayer",
                      "sink", "vectorDestination", "rasterDestination",
                      "fileDestination", "folderDestination"}
    THEN "Literal"
    ELSE IF param.typ = "file"
    THEN IF param.behavior = "Folder" THEN "Literal" ELSE "Complex"
    ELSE IF param.typ = "extent" THEN "BoundingBox"
    ELSE IF param.typ = "point" THEN "Complex"
    ELSE "none"

\* the matchers that recognise the descriptor when each is tried on its own
Recognisers(param, kwargs, context) ==
    { m \in {"literal", "layer", "extent", "file", "point"} :
        CASE m = "literal" -> parse_literal_input(param, kwargs).outcome # "none"
          [] m = "layer" -> parse_layer_input(param, kwargs, context).outcome # "none"
          [] m = "extent" -> parse_extent_input(param, kwargs).outcome # "none"
          [] m = "file" -> parse_file_input(param, kwargs).outcome # "none"
          [] m = "point" -> parse_point_input(param, kwargs).outcome # "none" }

\* the default of an enum descriptor is neither null, an integer nor a list
EnumDefaultUnsupported(param) ==
    /\ param.typ = "enum"
    /\ param.defaultValue.t \notin {"None", "int", "list"}

\* the default of an enum descriptor is an integer, or a list whose first
\* element is an integer, that is not an index of the options, or it is an
\* empty list
EnumDefaultOutOfRange(param) ==
    /\ param.typ = "enum"
    /\ \/ /\ param.defaultValue.t = "int"
          /\ ~PyIndexInRange(param.options, param.defaultValue.i)
       \/ /\ param.defaultValue.t = "list"
          /\ \/ Len(param.defaultValue.l) = 0
             \/ /\ param.defaultValue.l[1].t = "int"
                /\ ~PyIndexInRange(param.options, param.defaultValue.l[1].i)

\* the default of an enum descriptor is a list whose first element is not an
\* integer
EnumDefaultNotInteger(param) ==
    /\ param.typ = "enum"
    /\ param.defaultValue.t = "list"
    /\ Len(param.defaultValue.l) > 0
    /\ param.defaultValue.l[1].t # "int"

\* the translation gave an input of the shape claimed for the kind
GivesClaimedShape(param) ==
    /\ call.outcome = "ok"
    /\ call.inp.shape = ClaimedShape(param)

\* the translation raised the exception and gave no descriptor
RaisedOnly(exceptions) ==
    /\ call.outcome \in exceptions
    /\ call.inp = None

\* the outcome and the shape are the same under every map context
SameUnderEveryContext(param) ==
    \A c \in MapContexts :
        /\ parse_input_definition(param, c).outcome = call.outcome
        /\ call.outcome = "ok"
              => parse_input_definition(param, c).inp.shape = call.inp.shape

\* C7 (as amended): parse_input_definition is a function of the descriptor
\* with first-match precedence: no kind is recognised by two matchers; the
\* kinds the claim lists give a Literal, BoundingBox or Complex input as it
\* says, except an enum whose default value is not null and is neither an
\* integer nor a list, which raises InvalidParameterValue, an enum whose
\* default is an empty list or an integer (or a list starting with an
\* integer) that is not an index of its options, which raises IndexError,
\* and an enum whose default is a list starting with anything but an
\* integer, which raises TypeError; every other kind raises
\* ProcessingInputTypeNotSupported and returns no descriptor.
C7_DispatchByKindExceptEnumDefault ==
    AfterParseInputDefinition =>
        /\ Cardinality(Recognisers(call.param, InitialKwargs(call.param),
                                   call.context)) <= 1
        /\ SameUnderEveryContext(call.param)
        /\ ClaimedShape(call.param) = "none"
              => RaisedOnly({"ProcessingInputTypeNotSupported"})
        /\ EnumDefaultUnsupported(call.param)
              => RaisedOnly({"InvalidParameterValue"})
        /\ EnumDefaultOutOfRange(call.param) => RaisedOnly({"IndexError"})
        /\ EnumDefaultNotInteger(call.param) => RaisedOnly({"TypeError"})
        /\ (/\ ClaimedShape(call.param) # "none"
            /\ ~EnumDefaultUnsupported(call.param)
            /\ ~EnumDefaultOutOfRange(call.param)
            /\ ~EnumDefaultNotInteger(call.param))
              => GivesClaimedShape(call.param)

\* C7 (as claimed): parse_input_definition is a total function of the native
\* kind with first-match precedence: every kind the claim lists gives a
\* Literal, BoundingBox or Complex input as it says, no kind is recognised by
\* two matchers, and every other kind raises ProcessingInputTypeNotSupported
\* and returns no descriptor.
C7_DispatchByKind ==
    AfterParseInputDefinition =>
        /\ Cardinality(Recognisers(call.param, InitialKwargs(call.param),
                                   call.context)) <= 1
        /\ ClaimedShape(call.param) = "none"
              => RaisedOnly({"ProcessingInputTypeNotSupported"})
        /\ ClaimedShape(call.param) # "none" => GivesClaimedShape(call.param)

\* an enum whose default value is the string 'x' has been refused
C7_Witness ==
    /\ AfterParseInputDefinition
    /\ call.param.typ = "enum"
    /\ call.param.defaultValue = Str(<<"x">>)
    /\ call.outcome = "InvalidParameterValue"
    /\ call.inp = None

\* the output kinds that are layers: the vector and raster layer outputs and
\* the other layer-output kinds of QGIS
LayerOutputClasses ==
    {"OutputVectorLayer", "OutputRasterLayer", "OutputMapLayer", "OutputMultipleLayers"}

\* the reference formats the claim gives each layer output
ClaimedFormats(outdef) ==
    IF outdef.cls = "OutputVectorLayer"
    THEN <<"application/x-ogc-wms", "application/x-ogc-wfs">>
    ELSE IF outdef.cls = "OutputRasterLayer"
    THEN <<"application/x-ogc-wms", "application/x-ogc-wcs">>
    ELSE <<"application/x-ogc-wms">>

IsLayerReference(outdef) ==
    /\ call.outcome = "ok"
    /\ call.out.shape = "Complex"
    /\ call.out.as_reference = Set(TRUE)
    /\ call.out.supported_formats = Set(ClaimedFormats(outdef))

\* C8: parse_output_definition turns every layer output into a Complex output
\* with as_reference = true: a vector layer output advertises {WMS, WFS}, a
\* raster layer output {WMS, WCS} and any other layer output {WMS} only; a
\* descriptor that no matcher recognises raises
\* ProcessingOutputTypeNotSupported.
C8_LayerOutputsAreReferences ==
    AfterParseOutputDefinition =>
        /\ call.outdef.cls \in LayerOutputClasses => IsLayerReference(call.outdef)
        /\ call.outdef.typ \in {"outputFolder", "outputBoolean"}
              => call.outcome = "ProcessingOutputTypeNotSupported" /\ call.out = None

\* a vector, raster, generic or multi-layer parameter has been decoded
AfterLayerDecode ==
    /\ AfterInputToProcessing
    /\ IsInstance(call.param, INPUT_LAYER_TYPES)
    /\ ~IsInstance(call.param, {"FeatureSource"})

\* the identifier a layer spec resolves to when its scheme is accepted
ResolvedIdentifier(layerspec) ==
    IF UrlTable[layerspec].scheme = S_file
    THEN resolve_path(UrlTable[layerspec].path)
    ELSE UrlTable[layerspec].path

\* the returned value: the identifiers in submission order for several
\* values, the identifier itself for one
IsResolvedValue(inp) ==
    IF Len(inp) > 1
    THEN call.value = PyList([i \in 1..Len(inp) |-> ResolvedIdentifier(inp[i].data)])
    ELSE call.value = Str(ResolvedIdentifier(inp[1].data))

\* C9: decoding a vector, raster, generic or multi-layer parameter parses
\* every submitted value with selection disabled: several values give the
\* list of resolved identifiers in submission order (['layer:a', 'layer:b']
\* gives ['a', 'b']), one value gives that identifier and not a list; no
\* layer is looked up and the selection of the layer stays what it was, also
\* when a spec carries 'rect' or 'select'.
C9_LayersParsedWithoutSelection ==
    AfterLayerDecode =>
        /\ selected = call.before
        /\ log = <<>>
        /\ call.outcome \in {"ok", "InvalidParameterValue", "IndexError"}
        /\ call.outcome = "ok" <=>
              /\ Len(call.inp) > 0
              /\ \A i \in 1..Len(call.inp) : ~BadScheme(UrlTable[call.inp[i].data])
        /\ call.outcome = "ok" => IsResolvedValue(call.inp)
        /\ call.inp = << [data |-> <<"l", "a", "y", "e", "r", ":", "a">>],
                         [data |-> <<"l", "a", "y", "e", "r", ":", "b">>] >>
              => call.value = PyList(<< <<"a">>, <<"b">> >>)

\* a multi-layer parameter decoded for 'layer:a' and 'a?rect=1&select=2' on
\* a layer with feature 1 selected: ['a', 'a'], feature 1 still selected
C9_Witness ==
    /\ AfterLayerDecode
    /\ call.param.cls = "MultipleLayers"
    /\ call.inp = << [data |-> <<"l", "a", "y", "e", "r", ":", "a">>],
                     [data |-> <<"a", "?", "r", "e", "c", "t", "=", "1", "&",
                                 "s", "e", "l", "e", "c", "t", "=", "2">>] >>
    /\ call.value = PyList(<< <<"a">>, <<"a">> >>)
    /\ call.before = {1}
    /\ selected = {1}

\* the selection the queries of an execution ask for
OwnSelection(layerspec) ==
    AskedSelection(QueryOf(layerspec).rect, QueryOf(layerspec).select)

\* C10: the selection a feature-source decode applies is scoped to its
\* execution: whatever the order of the selectByRect and selectByExpression
\* steps of two executions on the same layer, the selection the algorithm of
\* an execution finds on the layer when it runs is the one computed from the
\* queries of that execution.
C10_SelectionScopedToExecution ==
    \A e \in Executions :
        (exec[e].pc = "run" /\ exec[e].has_selection)
            => exec[e].found = OwnSelection(exec[e].layerspec)

\* the call passed the scheme check with selection enabled and its query
\* holds 'rect' or 'select'
SelectionAsked ==
    /\ AfterParseLayerSpec
    /\ call.allow_selection
    /\ ~BadScheme(UrlTable[call.layerspec])
    /\ \/ Len(QueryOf(call.layerspec).rect) > 0
       \/ Len(QueryOf(call.layerspec).select) > 0

\* the layer the context holds under the path of the call: "none" without one
AskedLayerType(p) ==
    IF p \in DOMAIN LiveLayers THEN LiveLayers[p] ELSE "none"

\* a selection step that runs is the one in which QGIS throws
StepRaises(qs) ==
    \/ Len(qs.rect) > 0 /\ call.raises = "rect"
    \/ Len(qs.select) > 0 /\ call.raises = "select"

WarningLogged == \E i \in 1..Len(log) : log[i][1] = "warning"

\* the outcome of the call for a layer of the given type
SelectionOutcome(type, qs) ==
    CASE type = "none" ->
            /\ call.outcome = "InvalidParameterValue"
            /\ selected = call.before
      [] type # "none" /\ type # "VectorLayer" ->
            /\ call.outcome = "ok"
            /\ call.has_selection
            /\ WarningLogged
            /\ selected = call.before
      [] type = "VectorLayer" /\ StepRaises(qs) ->
            /\ call.outcome = "NoApplicableCode"
            /\ call.path = None
      [] OTHER ->
            /\ call.outcome = "ok"
            /\ call.has_selection
            /\ ~WarningLogged

\* C11: with allow_selection true and 'rect' or 'select' present, a call of
\* parse_layer_spec that has accepted the scheme ends in exactly one of four
\* ways: without a layer for the path it raises InvalidParameterValue and the
\* selection is unchanged; on a layer that is not a vector layer it logs a
\* warning, leaves the selection unchanged and returns; when a selection step
\* throws it raises NoApplicableCode; otherwise it returns has_selection true.
C11_SelectionOutcomes ==
    SelectionAsked =>
        SelectionOutcome(AskedLayerType(SchemePath(UrlTable[call.layerspec])),
                         QueryOf(call.layerspec))

\* 'a?rect=1&select=12' on the vector layer with the expression step
\* throwing: NoApplicableCode
C11_Witness ==
    /\ SelectionAsked
    /\ call.layerspec = <<"a", "?", "r", "e", "c", "t", "=", "1", "&",
                          "s", "e", "l", "e", "c", "t", "=", "1", "2">>
    /\ call.raises = "select"
    /\ call.outcome = "NoApplicableCode"

\* an enum descriptor has been translated
AfterEnumDefinition ==
    /\ AfterParseInputDefinition
    /\ call.param.typ = "enum"

\* the default is an index of the options, or a list of one such index
IndexDefault(options, d) ==
    \/ d.t = "int" /\ PyIndexInRange(options, d.i)
    \/ /\ d.t = "list" /\ Len(d.l) = 1
       /\ d.l[1].t = "int" /\ PyIndexInRange(options, d.l[1].i)

\* the option string the index default stands for
DefaultOption(options, d) ==
    IF d.t = "int" THEN PyIndex(options, d.i) ELSE PyIndex(options, d.l[1].i)

\* the default is not null and has another shape: a string, an empty list,
\* a list of two or more elements, a list of one element that is no integer
\* (an integer that is no index of the options is left to neither case)
OtherDefaultShape(d) ==
    \/ d.t = "str"
    \/ d.t = "list" /\ Len(d.l) # 1
    \/ d.t = "list" /\ Len(d.l) = 1 /\ d.l[1].t # "int"

\* C12: for an enum parameter parse_literal_input advertises max_occurs =
\* len(options) when multiple selection is allowed and 1 otherwise, resolves
\* the default to its option string when it is an index or a list of one
\* index, and rejects every other default that is not null (a list of two or
\* more indices, an empty list, a string) with InvalidParameterValue.
C12_EnumDefaultShapes ==
    AfterEnumDefinition =>
        /\ call.outcome = "ok"
              => call.inp.max_occurs = IF call.param.allowMultiple
                                       THEN Len(call.param.options) ELSE 1
        /\ call.param.defaultValue = None
              => call.outcome = "ok" /\ call.inp.default = None
        /\ IndexDefault(call.param.options, call.param.defaultValue)
              => /\ call.outcome = "ok"
                 /\ call.inp.default =
                        Str(DefaultOption(call.param.options, call.param.defaultValue))
        /\ OtherDefaultShape(call.param.defaultValue)
              => RaisedOnly({"InvalidParameterValue"})

\* a parameter of a kind the last branch of the decoder handles has been
\* decoded
AfterFallbackDecode ==
    /\ AfterInputToProcessing
    /\ call.param.typ \in {"string", "boolean", "number", "field", "band"}

RequiredWarningLogged ==
    \E i \in 1..Len(log) : log[i] = <<"warning", "Required input has no value">>

\* C13: for a string, boolean, number, field or band parameter
\* input_to_processing never raises: with a submitted value it returns the
\* raw data of the first value unchanged, without one it returns (parameter
\* name, null); the warning 'required input has no value' is logged exactly
\* when the list is empty and the parameter is not optional.
C13_FallbackPassesRawValue ==
    AfterFallbackDecode =>
        /\ call.outcome = "ok"
        /\ call.name = Str(call.param.name)
        /\ Len(call.inp) > 0 => call.value = Str(call.inp[1].data)
        /\ Len(call.inp) = 0 => call.value = None
        /\ RequiredWarningLogged <=> (Len(call.inp) = 0 /\ ~call.param.optional)
        /\ selected = call.before

\* a required string parameter decoded without a value: null, with the warning
C13_Witness ==
    /\ AfterFallbackDecode
    /\ call.param.typ = "string"
    /\ ~call.param.optional
    /\ call.inp = <<>>
    /\ call.outcome = "ok"
    /\ call.value = None
    /\ RequiredWarningLogged

\* C14: every input descriptor returned by parse_input_definition has
\* min_occurs <= max_occurs, whatever the optional flag, the enum options and
\* allowMultiple, the multi-layer minimumNumberInputs and the layers of the
\* map context's project.
C14_MinOccursAtMostMaxOccurs ==
    (AfterParseInputDefinition /\ call.outcome = "ok")
        => call.inp.min_occurs <= call.inp.max_occurs

====
